---- MODULE Spec2Model ----
(***************************************************************************)
(* Admin dashboard API and wallet auth bridge                              *)
(* (src/server/routes/api-admin-dashboard.ts) as a state machine.          *)
(*                                                                         *)
(* Text is a sequence of one-character strings, so that startsWith, split, *)
(* join, replace, parseInt and parseFloat are computed character by        *)
(* character.  A request passes through adminAuth and then through its     *)
(* route handler; the user store, the challenge table and the clock belong *)
(* to the environment and may change between the two.                      *)
(*                                                                         *)
(* The challenge card (src/client/src/components/ChallengeCard.tsx) is a   *)
(* second state machine over its own variables: the props and hooks it is  *)
(* rendered with, its useState cells, the mutation attempts in flight and  *)
(* the effects it has had on the world outside it.                         *)
(***************************************************************************)
EXTENDS Integers, Sequences, FiniteSets, TLC

VARIABLES
    users,        \* the user store, in the order getAllUsersWithWallets returns it
    challenges,   \* the challenges table, in the order db.select() returns it
    now,          \* the server clock, in milliseconds
    pc,           \* "idle" | "auth" | "route" | "done": where the request in hand is
    req,          \* the request in hand
    reqUser,      \* (req as any).user, Null until adminAuth attaches it
    res,          \* the response sent for the request in hand, NoResponse before
    calls,        \* the dependency calls made for the request in hand, in order
    handlerRan,   \* the route handler of the request in hand was entered
    escaped,      \* an exception left a handler uncaught
    challenge,          \* the card's challenge prop
    viewer,             \* useAuth(): isAuthenticated and user
    dateNow,            \* the browser clock, in milliseconds
    selectedProfileId,  \* useState, line 113
    showProfileModal,   \* useState, line 114
    showAcceptModal,    \* useState, line 115
    isPending,          \* acceptOpenChallengeMutation.isPending
    inflight,           \* the mutation attempts whose mutationFn has not settled
    effects,            \* what the card has done outside itself, in order
    view                \* what the last render put on the card

serverVars == <<users, challenges, now, pc, req, reqUser, res, calls, handlerRan, escaped>>
cardVars == <<challenge, viewer, dateNow, selectedProfileId, showProfileModal,
              showAcceptModal, isPending, inflight, effects, view>>

vars == <<serverVars, cardVars>>

\* ------------------------------------------------------------------ bounds

MaxTail == 4        \* longest token tail over u and _ tried after the prefix
MaxChallenges == 3  \* longest challenges table the stats are computed over
MaxUsers == 2       \* longest user list the stats are computed over
MaxItems == 5       \* longest short collection the list endpoints page over
MaxQueryLen == 1    \* longest digit string tried as limit or offset
MaxTick == 1        \* most the clock advances between two readings, in ms
MaxFrac == 1        \* decimal places kept of an amount

\* ------------------------------------------------------------- JS values

\* Every value that may be null or undefined is a record: Null, Absent, a
\* text Str(s) whose s is a sequence of characters, or an object.
Null == [null |-> TRUE]
Absent == [undefined |-> TRUE]
Str(s) == [str |-> s]
\* A text no code looks into, held whole.
Lit(s) == [lit |-> s]

\* JS truthiness of such a value: null, undefined and "" are falsy.
Truthy(v) == v \notin {Null, Absent, Str(<<>>)}

Min(a, b) == IF a < b THEN a ELSE b
\* JS numbers as far as the handlers use them: an integer, or NaN.
NaN == [nan |-> TRUE, v |-> 0]
Num(n) == [nan |-> FALSE, v |-> n]
NumTruthy(a) == ~a.nan /\ a.v # 0

\* ------------------------------------------------------------------ text

Digits == <<"0", "1", "2", "3", "4", "5", "6", "7", "8", "9">>
IsDigit(c) == \E i \in 1..10 : Digits[i] = c
DigitVal(c) == (CHOOSE i \in 1..10 : Digits[i] = c) - 1

\* String.prototype.split(sep), sep one character: the segments, empty ones kept.
RECURSIVE SplitFrom(_, _, _, _, _)
SplitFrom(s, sep, i, cur, acc) ==
    IF i > Len(s) THEN Append(acc, cur)
    ELSE IF s[i] = sep THEN SplitFrom(s, sep, i + 1, <<>>, Append(acc, cur))
    ELSE SplitFrom(s, sep, i + 1, Append(cur, s[i]), acc)

\* Array.prototype.join(sep)
RECURSIVE Join(_, _)
Join(parts, sep) ==
    IF Len(parts) = 0 THEN <<>>
    ELSE IF Len(parts) = 1 THEN parts[1]
    ELSE parts[1] \o <<sep>> \o Join(Tail(parts), sep)

\* Array.prototype.slice(start, end): negative indices count from the end.
SliceIndex(n, k) ==
    LET
        Max(a, b) == IF a > b THEN a ELSE b
    IN
                    IF k < 0 THEN Max(n + k, 0) ELSE Min(k, n)
Slice(a, start, end) ==
    SubSeq(a, SliceIndex(Len(a), start) + 1, SliceIndex(Len(a), end))

\* The longest prefix of s from position i on that consists of digits.
RECURSIVE DigitRun(_, _)
DigitRun(s, i) ==
    IF i <= Len(s) /\ IsDigit(s[i]) THEN <<s[i]>> \o DigitRun(s, i + 1) ELSE <<>>

RECURSIVE Pow10(_)
Pow10(n) == IF n = 0 THEN 1 ELSE 10 * Pow10(n - 1)

RECURSIVE DigitsValue(_)
DigitsValue(ds) ==
    IF Len(ds) = 0 THEN 0
    ELSE 10 * DigitsValue(SubSeq(ds, 1, Len(ds) - 1)) + DigitVal(ds[Len(ds)])

HasSign(s) == Len(s) > 0 /\ s[1] \in {"-", "+"}
SignOf(s) == IF Len(s) > 0 /\ s[1] = "-" THEN -1 ELSE 1

\* parseInt(v), radix 10: an optional sign and the longest run of digits
\* after it; NaN when there is none, as for undefined.  (The texts tried
\* hold no blanks and no x, so leading blanks and 0x are not modelled.)
parseInt(v) ==
    IF v \in {Absent, Null} THEN NaN
    ELSE LET s == v.str
             ds == DigitRun(s, IF HasSign(s) THEN 2 ELSE 1)
         IN IF Len(ds) = 0 THEN NaN ELSE Num(SignOf(s) * DigitsValue(ds))

\* parseFloat(text) in units of 10^-MaxFrac: an optional sign, a run of
\* digits, and after a point another run; NaN when neither run has a digit.
\* (No exponent: the texts tried hold no e.)
parseFloat(s) ==
    LET start == IF HasSign(s) THEN 2 ELSE 1
        ip == DigitRun(s, start)
        dot == start + Len(ip)
        fp == IF dot <= Len(s) /\ s[dot] = "." THEN DigitRun(s, dot + 1) ELSE <<>>
        kept == SubSeq(fp, 1, Min(Len(fp), MaxFrac))
    IN IF Len(ip) = 0 /\ Len(fp) = 0 THEN NaN
       ELSE Num(SignOf(s) * (DigitsValue(ip) * Pow10(MaxFrac)
                             + DigitsValue(kept) * Pow10(MaxFrac - Len(kept))))

\* All sequences over alphabet of length at most n.
SeqsUpTo(alphabet, n) == UNION {[1..k -> alphabet] : k \in 0..n}

\* ------------------------------------------------------------ user store

\* storage.getUser(id): the stored user with that id, or undefined.
GetUser(store, id) ==
    IF \E i \in 1..Len(store) : store[i].id = id
    THEN store[CHOOSE i \in 1..Len(store) : store[i].id = id]
    ELSE Absent

\* What a failing dependency throws: an Error object, or (a bare reject())
\* no object at all.
ErrorObj(message) == [message |-> message]
Thrown == {ErrorObj("connection lost"), ErrorObj("timed out"), Absent}
\* A dependency call either returns or throws.
Outcomes == {[threw |-> FALSE, error |-> Absent]} \cup {[threw |-> TRUE, error |-> e] : e \in Thrown}

\* ------------------------------------------------------------- responses

NoResponse == [status |-> 0, body |-> Absent]

\* res.status(code).json(body); the request is finished.
Send(code, body) ==
    /\ res' = [status |-> code, body |-> body]
    /\ pc' = "done"

\* --------------------------------------------------------------- adminAuth

Bearer == <<"B", "e", "a", "r", "e", "r", " ">>
AdminPrefix == <<"a", "d", "m", "i", "n", "_">>

\* line 13: req.headers.authorization?.replace('Bearer ', '')
TokenOf(authorization) ==
    LET
        \* String.prototype.replace(pat, rep) with a string pattern: the first
        \* occurrence only.
        Replace(s, pat, rep) ==
            LET hits == {i \in 1..(Len(s) - Len(pat) + 1) : SubSeq(s, i, i + Len(pat) - 1) = pat}
            IN IF hits = {} THEN s
               ELSE LET i == CHOOSE h \in hits : \A k \in hits : h <= k
                    IN SubSeq(s, 1, i - 1) \o rep \o SubSeq(s, i + Len(pat), Len(s))
    IN
    IF authorization = Absent THEN Absent
    ELSE Str(Replace(authorization.str, Bearer, <<>>))

\* As TokenFormatOk, had the check asked for two segments only.
TokenFormatOk_TwoSegments(parts) == ~(Len(parts) < 2)

\* line 22: at least three segments
TokenFormatOk(parts) == ~(Len(parts) < 3)

\* As ExtractUserId, had it taken the second segment alone.
ExtractUserId_SecondSegment(parts) == parts[2]

\* line 26: everything between the first and the last segment
ExtractUserId(parts) == Join(Slice(parts, 1, -1), "_")

\* As IsAdminUser, had the admin flag not been looked at.
IsAdminUser_AnyUser(user) == Truthy(user)

\* line 29: the looked-up user exists and is flagged admin
IsAdminUser(user) == ~(~Truthy(user) \/ ~user.isAdmin)

\* A dependency call as the request's log keeps it: what was called, with
\* what, whether it threw (and what), and what it returned.
Call(fn, args, o, ret) ==
    [fn |-> fn, args |-> args, threw |-> o.threw, error |-> o.error, ret |-> ret]

adminAuth ==
    LET
        Split(s, sep) == SplitFrom(s, sep, 1, <<>>, <<>>)
    IN
    LET
        \* String.prototype.startsWith
        StartsWith(s, p) == Len(s) >= Len(p) /\ SubSeq(s, 1, Len(p)) = p
    IN
    LET
        \* line 15: the token is present and starts with admin_
        HasAdminPrefix(token) == Truthy(token) /\ StartsWith(token.str, AdminPrefix)
    IN
    /\ pc = "auth"
    /\ UNCHANGED cardVars
    /\ UNCHANGED <<users, challenges, now, req, handlerRan, escaped>>
    /\ LET token == TokenOf(req.authorization) IN
       IF ~HasAdminPrefix(token)
       THEN /\ Send(401, [error |-> "Unauthorized"])
            /\ UNCHANGED <<calls, reqUser>>
       ELSE LET parts == Split(token.str, "_") IN
            IF ~TokenFormatOk(parts)
            THEN /\ Send(401, [error |-> "Invalid token format"])
                 /\ UNCHANGED <<calls, reqUser>>
            ELSE LET userId == ExtractUserId(parts) IN
                 \E o \in Outcomes :
                    /\ calls' = Append(calls, Call("getUser", <<Str(userId)>>, o,
                                                IF o.threw THEN Absent ELSE GetUser(users, userId)))
                    /\ IF o.threw
                       THEN \* line 36: the catch answers 401
                            /\ Send(401, [error |-> "Unauthorized"])
                            /\ UNCHANGED reqUser
                       ELSE LET user == GetUser(users, userId) IN
                            IF ~IsAdminUser(user)
                            THEN /\ Send(403, [error |-> "Admin access required"])
                                 /\ UNCHANGED reqUser
                            ELSE /\ reqUser' = user
                                 /\ pc' = "route"      \* next()
                                 /\ UNCHANGED res

\* --------------------------------------------------------- dependencies

\* As Fail500, had status(500) been left out.
Fail500_NoStatus(message) == Send(200, [error |-> message])

\* line 106 and its like: console.error, then res.status(500).json(fixed body)
Fail500(message) == Send(500, [error |-> message])

\* ------------------------------------------------------------ GET /stats

MsPerHour == 60 * 60 * 1000
MsPerDay == 24 * MsPerHour

\* line 54: new Date(u.createdAt).getTime(): NaN for undefined, 0 for null
DateTime(createdAt) ==
    IF createdAt = Absent THEN NaN
    ELSE IF createdAt = Null THEN Num(0)
    ELSE Num(createdAt.time)

\* line 57: createdAt >= oneWeekAgo (false for an invalid date)
IsNewThisWeek(createdAt, oneWeekAgo) ==
    LET t == DateTime(createdAt) IN ~t.nan /\ t.v >= oneWeekAgo

\* The clock reading taken for the i-th user, the clock having advanced by
\* ticks[j] before the j-th reading.
RECURSIVE ReadingAt(_, _, _)
ReadingAt(t0, ticks, i) == IF i = 0 THEN t0 ELSE ReadingAt(t0, ticks, i - 1) + ticks[i]

Count(n, Test(_)) == Cardinality({i \in 1..n : Test(i)})

\* lines 69-78: the forEach that accumulates totalChallengeStaked and totalVolume
RECURSIVE SumAmounts(_)
SumAmounts(cs) ==
    LET
        \* lines 73-74: the amount a challenge adds to both totals
        StakedAmount(ch) ==
            IF Truthy(ch.amount) THEN parseFloat(ch.amount.str) ELSE Num(0)
    IN
    LET
        NumAdd(a, b) == IF a.nan \/ b.nan THEN NaN ELSE Num(a.v + b.v)
    IN
    IF Len(cs) = 0 THEN Num(0)
    ELSE NumAdd(SumAmounts(SubSeq(cs, 1, Len(cs) - 1)), StakedAmount(cs[Len(cs)]))

\* lines 80-102
StatsBody(allUsers, allChallenges, cutoffs) ==
    LET
        TotalChallengeStaked(cs) == SumAmounts(cs)
    IN
    LET
        TotalVolume(cs) == SumAmounts(cs)
    IN
    LET
        \* line 60
        IsActiveUser(u) == u.status = "active" \/ u.isActive
    IN
    LET activeUsers == Count(Len(allUsers), LAMBDA i : IsActiveUser(allUsers[i]))
        statusCount(set) == Count(Len(allChallenges), LAMBDA i : allChallenges[i].status \in set)
    IN [totalUsers |-> Len(allUsers),
        activeUsers |-> activeUsers,
        newUsersThisWeek |->
            Count(Len(allUsers), LAMBDA i : IsNewThisWeek(allUsers[i].createdAt, cutoffs[i])),
        dailyActiveUsers |-> activeUsers,
        totalEvents |-> 0, activeEvents |-> 0, completedEvents |-> 0,
        totalChallenges |-> Len(allChallenges),
        activeChallenges |-> statusCount({"active"}),
        completedChallenges |-> statusCount({"completed"}),
        pendingChallenges |-> statusCount({"pending", "accepted"}),
        totalTransactions |-> 0,
        totalVolume |-> TotalVolume(allChallenges),
        totalEventPool |-> 0,
        totalChallengeStaked |-> TotalChallengeStaked(allChallenges),
        totalRevenue |-> 0, totalCreatorFees |-> 0, totalPlatformFees |-> 0,
        totalDeposits |-> 0, totalWithdrawals |-> 0, pendingPayouts |-> 0]

Stats ==
    LET
        \* lines 55-56: new Date() read at time t, then setDate(getDate() - 7): the
        \* same local time seven calendar days earlier.
        OneWeekAgo(t, shift) == t - 7 * MsPerDay + shift
    IN
    LET
        \* The clock readings of the filter at line 53, one per user, as calls.
        DateCalls(readings, cutoffs) ==
            [i \in 1..Len(readings) |->
                [fn |-> "new Date", args |-> <<>>, threw |-> FALSE, error |-> Absent,
                 ret |-> [time |-> readings[i], oneWeekAgo |-> cutoffs[i]]]]
    IN
    LET
        \* The change of the server's UTC offset between a date and the same local
        \* time seven days earlier: none, or a daylight-saving hour either way.
        TzShifts == {0 - MsPerHour, 0, MsPerHour}
    IN
    /\ pc = "route" /\ req.route = "stats"
    /\ UNCHANGED cardVars
    /\ handlerRan' = TRUE
    /\ UNCHANGED <<users, challenges, now, req, reqUser, escaped>>
    /\ \E o1 \in Outcomes :
         IF o1.threw
         THEN /\ calls' = calls \o <<Call("getAllUsersWithWallets", <<>>, o1, Absent)>>
              /\ Fail500("Failed to fetch stats")
         ELSE \E o2 \in Outcomes :
              IF o2.threw
              THEN /\ calls' = calls \o <<Call("getAllUsersWithWallets", <<>>, o1, Absent),
                                          Call("db.select", <<>>, o2, Absent)>>
                   /\ Fail500("Failed to fetch stats")
              ELSE \E ticks \in [1..Len(users) -> 0..MaxTick], shift \in TzShifts :
                   LET readings == [i \in 1..Len(users) |-> ReadingAt(now, ticks, i)]
                       cutoffs == [i \in 1..Len(users) |-> OneWeekAgo(readings[i], shift)]
                   IN /\ calls' = calls \o <<Call("getAllUsersWithWallets", <<>>, o1, Absent),
                                             Call("db.select", <<>>, o2, Absent)>>
                                         \o DateCalls(readings, cutoffs)
                      /\ Send(200, StatsBody(users, challenges, cutoffs))

\* ------------------------------------------- GET /users, GET /challenges

DefaultLimit == 100
DefaultOffset == 0

\* lines 117, 184: parseInt(req.query.limit) || 100
LimitOf(text) == LET n == parseInt(text) IN IF NumTruthy(n) THEN n.v ELSE DefaultLimit
\* lines 118, 185: parseInt(req.query.offset) || 0
OffsetOf(text) == LET n == parseInt(text) IN IF NumTruthy(n) THEN n.v ELSE DefaultOffset

\* lines 123, 189: all.slice(offset, offset + limit)
Page(all, limit, offset) == Slice(all, offset, offset + limit)

\* lines 124-136: the admin view of a user.  The stored users of the model
\* carry no names, email, level, points, balance or lastLogin.
UserListView(user) ==
    [id |-> user.id, username |-> Absent, firstName |-> "", lastName |-> "",
     email |-> Absent, level |-> 0, points |-> 0, balance |-> "0", streak |-> 0,
     createdAt |-> user.createdAt, lastLogin |-> user.createdAt,
     status |-> IF user.isActive THEN "active" ELSE "inactive",
     isAdmin |-> user.isAdmin]

\* lines 159-170: the view GET /users/:userId answers with
UserDetailView(user) ==
    [id |-> user.id, username |-> Absent, firstName |-> "", lastName |-> "",
     email |-> Absent, level |-> 0, points |-> 0, balance |-> "0",
     createdAt |-> user.createdAt, lastLogin |-> user.createdAt,
     status |-> IF user.isActive THEN "active" ELSE "inactive",
     isAdmin |-> user.isAdmin]

\* lines 190-225: the admin view of a challenge, as far as the stored
\* challenges of the model carry the fields
ChallengeView(ch) ==
    [id |-> ch.id,
     status |-> IF ch.status = "" THEN "pending" ELSE ch.status,
     amount |-> IF Truthy(ch.amount) THEN ch.amount ELSE Str(<<"0">>),
     challenged |-> IF Truthy(ch.challengedId) THEN ch.challengedId ELSE Str(<<>>),
     type |-> IF Truthy(ch.challengedId) THEN "p2p" ELSE "admin"]

MapSeq(f(_), xs) == [i \in 1..Len(xs) |-> f(xs[i])]

ListUsers ==
    /\ pc = "route" /\ req.route = "users"
    /\ UNCHANGED cardVars
    /\ handlerRan' = TRUE
    /\ UNCHANGED <<users, challenges, now, req, reqUser, escaped>>
    /\ LET limit == LimitOf(req.limit)
           offset == OffsetOf(req.offset)
       IN \E o \in Outcomes :
            /\ calls' = Append(calls, Call("getAllUsersWithWallets", <<>>, o, Absent))
            /\ IF o.threw
               THEN Fail500("Failed to fetch users")
               ELSE Send(200, [items |-> MapSeq(UserListView, Page(users, limit, offset))])

ListChallenges ==
    /\ pc = "route" /\ req.route = "challenges"
    /\ UNCHANGED cardVars
    /\ handlerRan' = TRUE
    /\ UNCHANGED <<users, challenges, now, req, reqUser, escaped>>
    /\ LET limit == LimitOf(req.limit)
           offset == OffsetOf(req.offset)
       IN \E o \in Outcomes :
            /\ calls' = Append(calls, Call("db.select", <<>>, o, Absent))
            /\ IF o.threw
               THEN Fail500("Failed to fetch challenges")
               ELSE Send(200, [items |-> MapSeq(ChallengeView, Page(challenges, limit, offset))])

\* -------------------------------------------------- GET /users/:userId

GetUserDetail ==
    /\ pc = "route" /\ req.route = "user"
    /\ UNCHANGED cardVars
    /\ handlerRan' = TRUE
    /\ UNCHANGED <<users, challenges, now, req, reqUser, escaped>>
    /\ \E o \in Outcomes :
         /\ calls' = Append(calls, Call("getUser", <<req.userId>>, o,
                                     IF o.threw THEN Absent ELSE GetUser(users, req.userId.str)))
         /\ IF o.threw
            THEN Fail500("Failed to fetch user")
            ELSE LET user == GetUser(users, req.userId.str) IN
                 IF ~Truthy(user)
                 THEN Send(404, [error |-> "User not found"])
                 ELSE Send(200, UserDetailView(user))

\* ------------------------------------------- POST /users/:userId/action

\* line 266: `Action ${action} executed`
ActionMessage(action) ==
    <<"Action ", IF action = Absent THEN "undefined" ELSE action.lit, " executed">>

\* As ApplyAction, had the ban case cleared the user's active flag.
ApplyAction_BanDeactivates(action, userId, store) ==
    IF action = Lit("ban")
    THEN [i \in 1..Len(store) |->
            IF Str(store[i].id) = userId THEN [store[i] EXCEPT !.isActive = FALSE] ELSE store[i]]
    ELSE store

\* lines 248-264: the switch over the action; every case is empty, and an
\* action that matches no case falls through.
ApplyAction(action, userId, store) ==
    CASE action = Lit("ban") -> store
      [] action = Lit("unban") -> store
      [] action = Lit("admin") -> store
      [] action = Lit("balance") -> store
      [] action = Lit("message") -> store
      [] OTHER -> store

\* lines 239-271: the action is logged, the switch is passed, and the
\* answer is sent.  With req.body an object nothing in the try block throws.
UserAction ==
    /\ pc = "route" /\ req.route = "action"
    /\ UNCHANGED cardVars
    /\ handlerRan' = TRUE
    /\ users' = ApplyAction(req.body.action, req.userId, users)
    /\ UNCHANGED <<challenges, now, req, reqUser, escaped, calls>>
    /\ Send(200, [success |-> TRUE, message |-> ActionMessage(req.body.action)])

\* ---------------------------------------------------- POST /wallet-login

\* As MissingWallet, had the check been walletAddress === undefined.
MissingWallet_UndefinedOnly(walletAddress) == walletAddress = Absent

\* line 293: !walletAddress
MissingWallet(walletAddress) == ~Truthy(walletAddress)

\* As MissingToken, had the check been token === null.
MissingToken_NullOnly(token) == token = Null

\* line 307: !token
MissingToken(token) == ~Truthy(token)

\* As LoginUserView, had the wallet been left out of the answer.
LoginUserView_NoWallet(user) == [id |-> user.id, email |-> user.email, wallet |-> Absent]

\* lines 316-320
LoginUserView(user) == [id |-> user.id, email |-> user.email, wallet |-> user.wallet]

\* lines 322-324: console.error(error.message), then a 500 carrying
\* error.message; reading message of undefined throws inside the catch.
WalletLoginCatch(error) ==
    IF error = Absent
    THEN /\ escaped' = TRUE
         /\ pc' = "done"
         /\ UNCHANGED res
    ELSE /\ Send(500, [error |-> error.message])
         /\ UNCHANGED escaped

\* What getOrCreateSupabaseUser may resolve to, and generateSupabaseToken return.
ProvisionedUsers ==
    {[id |-> i, email |-> e, wallet |-> w] :
        i \in {"sb-1", "sb-2"}, e \in {Absent, Str(<<"e">>)}, w \in {Str(<<"0", "a">>), Str(<<"0", "b">>)}}
WalletLogin ==
    LET
        IssuedTokens == {Str(<<"j", "1">>), Str(<<"j", "2">>)}
    IN
    LET
        \* line 300: !user
        MissingUser(user) == ~Truthy(user)
    IN
    /\ pc = "route" /\ req.route = "wallet-login"
    /\ UNCHANGED cardVars
    /\ handlerRan' = TRUE
    /\ UNCHANGED <<users, challenges, now, req, reqUser>>
    /\ LET walletAddress == req.body.walletAddress
           email == req.body.email
       IN IF MissingWallet(walletAddress)
          THEN /\ Send(400, [error |-> "Missing walletAddress"])
               /\ UNCHANGED <<calls, escaped>>
          ELSE \E o1 \in Outcomes, user \in ProvisionedUsers \cup {Null} :
               LET c1 == Call("getOrCreateSupabaseUser", <<walletAddress, email>>, o1,
                              IF o1.threw THEN Absent ELSE user)
               IN IF o1.threw
                  THEN /\ user = Null
                       /\ calls' = Append(calls, c1)
                       /\ WalletLoginCatch(o1.error)
                  ELSE IF MissingUser(user)
                  THEN /\ calls' = Append(calls, c1)
                       /\ Send(500, [error |-> "Failed to create user"])
                       /\ UNCHANGED escaped
                  ELSE \E o2 \in Outcomes, token \in IssuedTokens \cup {Null, Str(<<>>)} :
                       LET c2 == Call("generateSupabaseToken", <<user.id, walletAddress>>, o2,
                                      IF o2.threw THEN Absent ELSE token)
                       IN /\ calls' = calls \o <<c1, c2>>
                          /\ IF o2.threw
                             THEN token = Null /\ WalletLoginCatch(o2.error)
                             ELSE IF MissingToken(token)
                             THEN /\ Send(500, [error |-> "Failed to generate token"])
                                  /\ UNCHANGED escaped
                             ELSE /\ Send(200, [success |-> TRUE, token |-> token,
                                                user |-> LoginUserView(user)])
                                  /\ UNCHANGED escaped

\* ------------------------------------------------------- the card's props

\* A boolean prop, which may also be absent.
Bool(b) == [bool |-> b]

\* ToBoolean of a prop: undefined, null, "", 0, NaN and false are falsy.
ToBoolean(v) == v \notin {Absent, Null, Str(<<>>), Lit(""), Num(0), NaN, Bool(FALSE)}

\* The browser clock at the card's first render.
CardStart == 24 * (24 * 60 * 60 * 1000)

TokenAddress == Lit("0x833589fCD6eDb6E08f4c7C32D4f71b54bdA02913")

\* An open peer-to-peer challenge by a, an hour old, nobody challenged yet.
P2POpen ==
    [id |-> 7, challenger |-> Str(<<"a">>), challenged |-> Absent, challengerSide |-> Absent,
     amount |-> Str(<<"1", "0">>), status |-> "open", dueDate |-> Absent,
     createdAt |-> [time |-> CardStart - 60 * 60 * 1000],
     adminCreated |-> Absent, bonusSide |-> Absent, bonusMultiplier |-> Absent,
     bonusEndsAt |-> Absent, bonusAmount |-> Absent,
     yesStakeTotal |-> Absent, noStakeTotal |-> Absent,
     paymentTokenAddress |-> TokenAddress,
     earlyBirdSlots |-> Absent, streakBonusEnabled |-> Absent,
     challengerUser |-> [id |-> Str(<<"a">>)], challengedUser |-> Absent,
     isPinned |-> Absent, acceptorStaked |-> Absent, creatorStaked |-> Absent,
     stakeAmountWei |-> Absent]

\* An open admin-created challenge, not pinned.
AdminOpen ==
    [P2POpen EXCEPT !.id = 8, !.challenger = Absent, !.challengerUser = Absent,
                    !.adminCreated = Bool(TRUE), !.isPinned = Bool(FALSE),
                    !.yesStakeTotal = Num(30), !.noStakeTotal = Num(12)]

\* Who looks at the card: nobody logged in, a user, an admin.
Anonymous == [isAuthenticated |-> FALSE, user |-> Absent]
Viewer(id, isAdmin) == [isAuthenticated |-> TRUE, user |-> [id |-> Str(id), isAdmin |-> isAdmin]]

\* The card as mounted, before its first render: lines 113-116.
Mounted ==
    /\ dateNow = CardStart
    /\ selectedProfileId = Null
    /\ showProfileModal = FALSE
    /\ showAcceptModal = FALSE
    /\ isPending = FALSE
    /\ inflight = {}
    /\ effects = <<>>
    /\ view = Absent

\* ------------------------------------------------------------- requests

Request(route, authorization, limit, offset, userId, body) ==
    [route |-> route, authorization |-> authorization, limit |-> limit,
     offset |-> offset, userId |-> userId, body |-> body]

NoRequest == Request("none", Absent, Absent, Absent, Absent, Absent)

\* A request arrives: nothing has been done for it yet.
Arrive(r, next) ==
    /\ pc = "idle"
    /\ UNCHANGED cardVars
    /\ req' = r
    /\ pc' = next
    /\ UNCHANGED <<users, challenges, now, res, reqUser, calls, handlerRan, escaped>>

\* The request in hand is over; the handlers keep nothing of it.
Finish ==
    /\ pc = "done"
    /\ UNCHANGED cardVars
    /\ pc' = "idle"
    /\ req' = NoRequest
    /\ res' = NoResponse
    /\ reqUser' = Null
    /\ calls' = <<>>
    /\ handlerRan' = FALSE
    /\ escaped' = FALSE
    /\ UNCHANGED <<users, challenges, now>>

\* The header of an admin whose id is u.
GoodHeader == Str(Bearer \o AdminPrefix \o <<"u", "_", "1">>)

UserIdParams == {Str(<<"u">>), Str(<<"9">>)}

AdminRequests(headers, queries) ==
    LET
        NoBody == [action |-> Absent, value |-> Absent, reason |-> Absent]
    IN
    LET
        ActionBodies ==
            {[action |-> a, value |-> Absent, reason |-> Absent] : a \in {Absent, Lit("ban"), Lit("promote")}}
    IN
    {Request(route, h, Absent, Absent, Absent, NoBody) : route \in {"stats"}, h \in headers}
    \cup {Request(route, h, l, o, Absent, NoBody) :
            route \in {"users", "challenges"}, h \in headers, l \in queries, o \in queries}
    \cup {Request("user", h, Absent, Absent, id, NoBody) : h \in headers, id \in UserIdParams}
    \cup {Request("action", h, Absent, Absent, id, b) :
            h \in headers, id \in {Str(<<"u">>)}, b \in ActionBodies}

\* A request to one of the five admin routes: adminAuth runs first.
ReceiveAdmin ==
    LET
        Tokens ==
            LET
                \* Every tail over u and _, and three that end in a number.
                TokenTails ==
                    SeqsUpTo({"u", "_"}, MaxTail)
                    \cup {<<"u", "_", "1">>, <<"u", "_", "1", "_", "9">>, <<"_", "_", "1">>}
            IN
            LET
                TokenPrefixes ==
                    {<<>>, <<"a", "d", "m", "i", "n">>, AdminPrefix,
                     <<"u", "s", "e", "r", "_">>, <<"A", "d", "m", "i", "n", "_">>}
            IN
                  {p \o t : p \in TokenPrefixes, t \in TokenTails}
    IN
    LET
        Headers == {Absent} \cup {Str(Bearer \o t) : t \in Tokens} \cup {Str(t) : t \in Tokens}
    IN
                \E r \in AdminRequests(Headers, {Absent}) : Arrive(r, "auth")

\* A request to wallet-login: no middleware before the handler.
ReceiveWalletLogin ==
    LET
        LoginBodies ==
            LET
                Emails == {Absent, Str(<<"e">>)}
            IN
            LET
                WalletAddresses == {Absent, Str(<<>>), Str(<<"0", "A">>), Str(<<"0", "B">>)}
            IN
                       {[walletAddress |-> w, email |-> e] : w \in WalletAddresses, e \in Emails}
    IN
    \E b \in LoginBodies :
        Arrive(Request("wallet-login", Absent, Absent, Absent, Absent, b), "route")

\* ---------------------------------------------------------- environment

\* The platform sets or clears a user's admin flag.
SetAdmin ==
    /\ \E i \in 1..Len(users) : users' = [users EXCEPT ![i].isAdmin = ~@]
    /\ UNCHANGED cardVars
    /\ UNCHANGED <<challenges, now, pc, req, reqUser, res, calls, handlerRan, escaped>>

Start == 10 * MsPerDay
Date(t) == [time |-> t]

User(id, isAdmin, createdAt) ==
    [id |-> id, isAdmin |-> isAdmin, isActive |-> isAdmin, status |-> "active",
     createdAt |-> createdAt]
Challenge(id, amount, status, challengedId) ==
    [id |-> id, amount |-> amount, status |-> status, challengedId |-> challengedId]

SomeUsers ==
    <<User(<<"u">>, TRUE, Date(Start - 8 * MsPerDay)),
      User(<<"u", "_", "1">>, FALSE, Date(Start - 6 * MsPerDay))>>
SomeChallenges ==
    <<Challenge(1, Str(<<"1", "0">>), "active", Str(<<"u">>)),
      Challenge(2, Absent, "", Absent),
      Challenge(3, Str(<<"5", ".", "5">>), "completed", Absent)>>

Idle ==
    LET
        \* The card while the server is looked at.
        CardIdle ==
            /\ challenge = P2POpen
            /\ viewer = Anonymous
            /\ Mounted
    IN
    /\ CardIdle
    /\ now = Start
    /\ pc = "idle"
    /\ req = NoRequest
    /\ reqUser = Null
    /\ res = NoResponse
    /\ calls = <<>>
    /\ handlerRan = FALSE
    /\ escaped = FALSE

Init ==
    /\ users = SomeUsers
    /\ challenges = SomeChallenges
    /\ Idle

Next ==
    \/ ReceiveAdmin
    \/ ReceiveWalletLogin
    \/ adminAuth
    \/ Stats
    \/ ListUsers
    \/ GetUserDetail
    \/ ListChallenges
    \/ UserAction
    \/ WalletLogin
    \/ Finish
    \/ SetAdmin

Spec == Init /\ [][Next]_vars

\* ------------------------------------------- wallet-login on its own

NextLogin ==
    \/ ReceiveWalletLogin
    \/ WalletLogin
    \/ Finish

SpecLogin == Init /\ [][NextLogin]_vars

\* ------------------------------------------ stats over drawn collections

\* The decimal text of a natural number.
RECURSIVE IntText(_)
IntText(n) == IF n < 10 THEN <<Digits[n + 1]>> ELSE IntText(n \div 10) \o <<Digits[(n % 10) + 1]>>

\* The i-th stored user: the first is the admin u, the others are not admins.
UserId(i) == IF i = 1 THEN <<"u">> ELSE <<"u", "_">> \o IntText(i)

InitStats ==
    LET
        ChallengeLists ==
            LET
                Amounts ==
                    {Absent, Null, Str(<<>>), Str(<<"1", "0">>), Str(<<"5", ".", "5">>), Str(<<"0">>),
                     Str(<<"x">>), Str(<<"1", "x">>), Str(<<".", "5">>)}
            IN
            {[i \in 1..n |-> Challenge(i, as[i], "active", Absent)] :
                n \in 0..MaxChallenges, as \in [1..MaxChallenges -> Amounts]}
    IN
    LET
        UserLists ==
            LET
                \* Creation times around the week's boundary, an absent one and a null one.
                CreatedAts ==
                    {Absent, Null}
                    \cup {Date(Start - 7 * MsPerDay + d) : d \in {0 - MsPerDay, 0 - MsPerHour, -1, 0, 1, MsPerDay}}
            IN
            {[i \in 1..n |-> User(UserId(i), i = 1, cs[i])] :
                n \in 1..MaxUsers, cs \in [1..MaxUsers -> CreatedAts]}
    IN
    /\ \/ users \in UserLists /\ challenges = SomeChallenges
       \/ users = SomeUsers /\ challenges \in ChallengeLists
    /\ Idle

ReceiveStats == \E r \in AdminRequests({GoodHeader}, {Absent}) : r.route = "stats" /\ Arrive(r, "auth")

NextStats ==
    \/ ReceiveStats
    \/ adminAuth
    \/ Stats
    \/ Finish

SpecStats == InitStats /\ [][NextStats]_vars

\* ------------------------------------- the lists over drawn collections

\* Short collections, and one longer than the default limit.
InitList ==
    LET
        ChallengesOfLen(n) == [i \in 1..n |-> Challenge(i, Str(IntText(i)), "active", Absent)]
    IN
    LET
        UsersOfLen(n) == [i \in 1..n |-> User(UserId(i), i = 1, Date(Start - i))]
    IN
    /\ \E n \in (1..MaxItems) \cup {DefaultLimit + 1} :
          /\ users = UsersOfLen(n)
          /\ challenges = ChallengesOfLen(n)
    /\ Idle

ReceiveList ==
    LET
        QueryTexts ==
            {Absent}
            \cup {Str(t) : t \in SeqsUpTo({"0", "1", "2"}, MaxQueryLen)}
            \cup {Str(<<"a">>), Str(<<"2", "a">>), Str(<<"-", "1">>),
                  Str(IntText(DefaultLimit)), Str(IntText(DefaultLimit + 1))}
    IN
    \E r \in AdminRequests({GoodHeader}, QueryTexts) :
        r.route \in {"users", "challenges"} /\ Arrive(r, "auth")

NextList ==
    \/ ReceiveList
    \/ adminAuth
    \/ ListUsers
    \/ ListChallenges
    \/ Finish

SpecList == InitList /\ [][NextList]_vars

\* ------------------------------------------ user actions on their own

ReceiveAction ==
    LET
        \* Every recognised action, one the switch does not know, and none; with
        \* and without a value and a reason.
        AllActionBodies ==
            {[action |-> a, value |-> v, reason |-> r] :
                a \in {Absent, Lit("ban"), Lit("unban"), Lit("admin"), Lit("balance"),
                        Lit("message"), Lit("promote"), Lit("")},
                v \in {Absent, Lit("5")},
                r \in {Absent, Lit("spam")}}
    IN
    \E id \in UserIdParams, b \in AllActionBodies :
        Arrive(Request("action", GoodHeader, Absent, Absent, id, b), "auth")

NextAction ==
    \/ ReceiveAction
    \/ adminAuth
    \/ UserAction
    \/ Finish
    \/ SetAdmin

SpecAction == Init /\ [][NextAction]_vars

\* ======================================================= the challenge card

\* new Date(text).getTime(): NaN for undefined and for a text that is no
\* date, 0 for null.
DateOf(v) ==
    IF v = Null THEN Num(0)
    ELSE IF "time" \in DOMAIN v THEN Num(v.time)
    ELSE NaN

\* ------------------------------------------------------------ mutations

MaxAttempts == 2    \* most mutate() calls followed on one card

ChainResults ==
    LET
        \* What acceptP2PChallenge may resolve to: an object with a hash, one
        \* without, or nothing.
        TxHashes == {Lit("0xaa"), Lit("0xbb")}
    IN
                {[transactionHash |-> h] : h \in TxHashes \cup {Absent}} \cup {Absent}

ChallengesKey == <<"/api/challenges">>

\* The effects of the card: effects made for a mutation attempt carry the
\* number of the attempt.
MutateEffect(n, m) == [kind |-> "mutate", attempt |-> n, m |-> m]
ApiRequest(n, method, url, body) ==
    [kind |-> "request", attempt |-> n, method |-> method, url |-> url, body |-> body]
Toast(n, title, description, variant) ==
    [kind |-> "toast", attempt |-> n, title |-> title, description |-> description,
     variant |-> variant]
Invalidate(n, queryKey) == [kind |-> "invalidate", attempt |-> n, queryKey |-> queryKey]

ApiAnswer(n, ok, error) == [kind |-> "answer", attempt |-> n, ok |-> ok, error |-> error]

EffectsOf(kind) == {i \in 1..Len(effects) : effects[i].kind = kind}

\* The number the next mutate() call gets.
NextAttempt == Cardinality(EffectsOf("mutate")) + 1

\* `/api/challenges/${id}` and what follows it
Url(id, rest) == [base |-> "/api/challenges/", id |-> id, rest |-> rest]

\* lines 190-196, 212-218, 234-240: onSuccess of accept, decline and pin
SuccessToast(n, m) ==
    CASE m = "accept" ->
            Toast(n, "Challenge Accepted", <<"You have successfully accepted the challenge!">>, Absent)
      [] m = "decline" ->
            Toast(n, "Challenge Declined", <<"You have declined the challenge.">>, Absent)
      [] m = "pin" ->
            IF ToBoolean(challenge.isPinned)
            THEN Toast(n, "Unpinned", <<"Challenge unpinned from top">>, Absent)
            ELSE Toast(n, "Pinned", <<"Challenge pinned to top">>, Absent)
      [] OTHER ->
            Toast(n, "Challenge Accepted!", <<"You're in! Both stakes are now locked on-chain.">>, Absent)

\* As InvalidatesOnSuccess, had decline forgotten to invalidate.
InvalidatesOnSuccess_NotDecline(n, m) ==
    IF m = "decline" THEN <<>> ELSE <<Invalidate(n, ChallengesKey)>>

\* lines 195, 217, 239, 278: queryClient.invalidateQueries in every onSuccess
InvalidatesOnSuccess(n, m) == <<Invalidate(n, ChallengesKey)>>

OnSuccess(n, m) == <<SuccessToast(n, m)>> \o InvalidatesOnSuccess(n, m)

\* lines 197-203, 219-225, 241-247: onError of accept, decline and pin
OnError(n, error) == <<Toast(n, "Error", error.message, "destructive")>>

ContentionMessage == <<"Failed to accept challenge. Someone may have accepted it first!">>

\* As AcceptOpenErrorText, had the contention text been shown always.
AcceptOpenErrorText_AlwaysContention(error) == ContentionMessage

\* line 283: error.message || the contention text
AcceptOpenErrorText(error) ==
    IF error.message # <<>> THEN error.message ELSE ContentionMessage

\* lines 280-286: onError of acceptOpenChallengeMutation
OnAcceptOpenError(n, error) ==
    <<Toast(n, "Error", AcceptOpenErrorText(error), "destructive")>>

\* As SigningFailure, had the chain's error been passed on as it came.
SigningFailure_Bare(blockchainError) == blockchainError

\* line 264: new Error(`Blockchain signing failed: ${blockchainError.message || 'Unknown error'}`)
SigningFailure(blockchainError) ==
    [message |-> <<"Blockchain signing failed: ">>
                  \o (IF blockchainError.message # <<>> THEN blockchainError.message
                      ELSE <<"Unknown error">>)]

\* accept and decline: mutate() runs the mutationFn, which sends its request.
\* (Nothing the card renders calls these two; they are followed for when
\* they are called.)
Mutate(m) ==
    LET
        DeclineRequest(n) ==
            ApiRequest(n, "PATCH", Url(challenge.id, ""), [status |-> "cancelled"])
    IN
    LET
        \* lines 188, 208, 230: the request a mutationFn sends at once
        AcceptRequest(n) ==
            ApiRequest(n, "POST", Url(challenge.id, "/accept"), Absent)
    IN
    /\ m \in {"accept", "decline"}
    /\ NextAttempt <= MaxAttempts
    /\ LET n == NextAttempt IN
       /\ effects' = effects \o <<MutateEffect(n, m),
                                  IF m = "accept" THEN AcceptRequest(n) ELSE DeclineRequest(n)>>
       /\ inflight' = inflight \cup {[attempt |-> n, m |-> m, phase |-> "api"]}
    /\ UNCHANGED <<challenge, viewer, dateNow, selectedProfileId, showProfileModal,
                   showAcceptModal, isPending, view>>
    /\ UNCHANGED serverVars

\* lines 542-547: the pin button, shown to an admin on an admin-created card
PinShown == ToBoolean(viewer.user) /\ viewer.user.isAdmin /\ ToBoolean(challenge.adminCreated)

PressPin ==
    LET
        PinRequest(n) ==
            ApiRequest(n, "POST", Url(challenge.id, "/pin"),
                       [pin |-> ~ToBoolean(challenge.isPinned)])
    IN
    /\ PinShown
    /\ NextAttempt <= MaxAttempts
    /\ LET n == NextAttempt IN
       /\ effects' = effects \o <<MutateEffect(n, "pin"), PinRequest(n)>>
       /\ inflight' = inflight \cup {[attempt |-> n, m |-> "pin", phase |-> "api"]}
    /\ UNCHANGED <<challenge, viewer, dateNow, selectedProfileId, showProfileModal,
                   showAcceptModal, isPending, view>>
    /\ UNCHANGED serverVars

\* As ModalButtonsDisabled, had the buttons not looked at the mutation.
ModalButtonsDisabled_Never == FALSE

\* lines 896 and 903: disabled={acceptOpenChallengeMutation.isPending}, on
\* Cancel and on Accept alike
ModalButtonsDisabled == isPending

\* lines 901-904: the modal's Accept button, disabled while the mutation is
\* pending; lines 253-259: the mutationFn starts with the on-chain call.
PressAccept ==
    LET
        ChainCall(n, id) == [kind |-> "chain", attempt |-> n, fn |-> "acceptP2PChallenge", id |-> id]
    IN
    /\ showAcceptModal
    /\ ~ModalButtonsDisabled
    /\ NextAttempt <= MaxAttempts
    /\ LET n == NextAttempt IN
       /\ effects' = effects \o <<MutateEffect(n, "acceptOpen"), ChainCall(n, challenge.id)>>
       /\ inflight' = inflight \cup {[attempt |-> n, m |-> "acceptOpen", phase |-> "chain"]}
    /\ isPending' = TRUE
    /\ UNCHANGED <<challenge, viewer, dateNow, selectedProfileId, showProfileModal,
                   showAcceptModal, view>>
    /\ UNCHANGED serverVars

\* lines 893-897: the modal's Cancel button, disabled while pending
PressCancel ==
    /\ showAcceptModal
    /\ ~ModalButtonsDisabled
    /\ showAcceptModal' = FALSE
    /\ UNCHANGED <<challenge, viewer, dateNow, selectedProfileId, showProfileModal,
                   isPending, inflight, effects, view>>
    /\ UNCHANGED serverVars

\* line 835: the dialog asks for its open state to change (Escape, a click
\* outside, or whatever opens it)
DialogOpenChange(open) ==
    /\ showAcceptModal # open
    /\ showAcceptModal' = open
    /\ UNCHANGED <<challenge, viewer, dateNow, selectedProfileId, showProfileModal,
                   isPending, inflight, effects, view>>
    /\ UNCHANGED serverVars

\* The mutationFn of attempt a of acceptOpen rejects with error after answer
\* came back.
AcceptOpenFails(a, answer, error) ==
    /\ effects' = effects \o <<answer>> \o OnAcceptOpenError(a.attempt, error)
    /\ inflight' = inflight \ {a}
    /\ isPending' = FALSE
    /\ UNCHANGED showAcceptModal

\* What the wallet call throws when signing fails or is refused: an Error,
\* whose message may be empty.
ChainErrors == {[message |-> <<"User rejected the request">>], [message |-> <<>>]}

\* lines 259-270: the on-chain call settles
ChainSettles ==
    LET
        \* What came back to the card is kept in the same order: how the on-chain
        \* call and how a request settled.
        ChainAnswer(n, threw, value) ==
            [kind |-> "chainAnswer", attempt |-> n, threw |-> threw, value |-> value]
    IN
    LET
        \* line 260 read of undefined: the TypeError the try block catches
        NoResultError == [message |-> <<"Cannot read properties of undefined (reading 'transactionHash')">>]
    IN
    LET
        \* line 268: the second step of accepting an open challenge
        AcceptOpenRequest(n, transactionHash) ==
            ApiRequest(n, "POST", Url(challenge.id, "/accept-open"),
                       [transactionHash |-> transactionHash])
    IN
    /\ \E a \in inflight :
        /\ a.m = "acceptOpen" /\ a.phase = "chain"
        /\ \/ \E txResult \in ChainResults :
                IF txResult = Absent
                THEN AcceptOpenFails(a, ChainAnswer(a.attempt, FALSE, txResult),
                                     SigningFailure(NoResultError))
                ELSE /\ effects' = effects
                                    \o <<ChainAnswer(a.attempt, FALSE, txResult),
                                          AcceptOpenRequest(a.attempt, txResult.transactionHash)>>
                     /\ inflight' = (inflight \ {a}) \cup {[a EXCEPT !.phase = "api"]}
                     /\ UNCHANGED <<isPending, showAcceptModal>>
           \/ \E blockchainError \in ChainErrors :
                AcceptOpenFails(a, ChainAnswer(a.attempt, TRUE, blockchainError),
                                SigningFailure(blockchainError))
    /\ UNCHANGED <<challenge, viewer, dateNow, selectedProfileId, showProfileModal, view>>
    /\ UNCHANGED serverVars

\* What a failing call throws on the client: an Error, whose message may be
\* empty.  A message is the sequence of the pieces it was put together from.
ApiErrors == {[message |-> <<"409: Challenge already accepted">>], [message |-> <<>>]}

\* The request of a mutation attempt settles: onSuccess or onError runs.
ApiSettles ==
    /\ \E a \in inflight :
        /\ a.phase = "api"
        /\ inflight' = inflight \ {a}
        /\ \/ /\ effects' = effects \o <<ApiAnswer(a.attempt, TRUE, Absent)>>
                                    \o OnSuccess(a.attempt, a.m)
              /\ IF a.m = "acceptOpen"
                 THEN showAcceptModal' = FALSE /\ isPending' = FALSE     \* line 277
                 ELSE UNCHANGED <<showAcceptModal, isPending>>
           \/ \E error \in ApiErrors :
              /\ effects' = effects \o <<ApiAnswer(a.attempt, FALSE, error)>>
                                    \o (IF a.m = "acceptOpen"
                                        THEN OnAcceptOpenError(a.attempt, error)
                                        ELSE OnError(a.attempt, error))
              /\ isPending' = IF a.m = "acceptOpen" THEN FALSE ELSE isPending
              /\ UNCHANGED showAcceptModal
    /\ UNCHANGED <<challenge, viewer, dateNow, selectedProfileId, showProfileModal, view>>
    /\ UNCHANGED serverVars

\* ------------------------------------------------------------- rendering

\* `${v}` of a prop the card does not look into
TemplateText(v) ==
    IF v = Absent THEN "undefined" ELSE IF v = Null THEN "null" ELSE v.lit

\* line 144: `${getCurrencySymbol(paymentTokenAddress)}${formatTokenAmount(bonusAmount)}`,
\* kept as the two calls it is made of
CurrencyLabel(paymentTokenAddress, amount) ==
    [getCurrencySymbol |-> paymentTokenAddress, formatTokenAmount |-> amount]

\* line 144: `${bonusMultiplier}x`
MultiplierLabel(bonusMultiplier) == [text |-> <<TemplateText(bonusMultiplier), "x">>]

\* lines 136-137: bonusEndsAt && new Date(bonusEndsAt) > new Date()
IsBonusActive(ch, t) ==
    /\ ToBoolean(ch.bonusEndsAt)
    /\ ~DateOf(ch.bonusEndsAt).nan
    /\ DateOf(ch.bonusEndsAt).v > t

\* As WeakSideLabel, had the multiplier been preferred to the amount.
WeakSideLabel_MultiplierFirst(ch) ==
    IF ToBoolean(ch.bonusMultiplier) THEN MultiplierLabel(ch.bonusMultiplier)
    ELSE CurrencyLabel(ch.paymentTokenAddress, ch.bonusAmount)

\* line 144
WeakSideLabel(ch) ==
    IF ToBoolean(ch.bonusAmount) THEN CurrencyLabel(ch.paymentTokenAddress, ch.bonusAmount)
    ELSE MultiplierLabel(ch.bonusMultiplier)

\* lines 139-175
getBonusBadge(ch, t) ==
    (IF IsBonusActive(ch, t) /\ ToBoolean(ch.bonusSide)
     THEN <<[type |-> "weak_side", label |-> WeakSideLabel(ch), side |-> ch.bonusSide]>>
     ELSE <<>>)
    \o (IF ToBoolean(ch.earlyBirdSlots) /\ ch.earlyBirdSlots.v > 0
        THEN <<[type |-> "early_bird", label |-> "Early"]>>
        ELSE <<>>)
    \o (IF ToBoolean(ch.streakBonusEnabled)
        THEN <<[type |-> "streak", label |-> "Streak"]>>
        ELSE <<>>)

\* As UnderAWeek, had seven days still counted as days.
UnderAWeek_Inclusive(diffDays) == diffDays <= 7

\* line 448
UnderAWeek(diffDays) == diffDays < 7

\* lines 438-452; an invalid date makes every difference NaN, no comparison
\* holds and the label is NaNw
getCompactTimeAgo(date, t) ==
    LET
        \* The decimal text of an integer.
        NumText(n) == IF n < 0 THEN <<"-">> \o IntText(0 - n) ELSE IntText(n)
    IN
    LET created == DateOf(date) IN
    IF created.nan THEN Str(<<"N", "a", "N", "w">>)
    ELSE LET diffMs == t - created.v
             diffMins == diffMs \div 60000
             diffHours == diffMs \div 3600000
             diffDays == diffMs \div 86400000
         IN IF diffMins < 60 THEN Str(NumText(diffMins) \o <<"m">>)
            ELSE IF diffHours < 24 THEN Str(NumText(diffHours) \o <<"h">>)
            ELSE IF UnderAWeek(diffDays) THEN Str(NumText(diffDays) \o <<"d">>)
            ELSE Str(NumText(diffDays \div 7) \o <<"w">>)

\* line 289
isEnded(ch, t) ==
    \/ ch.status = "completed"
    \/ /\ ToBoolean(ch.dueDate)
       /\ ~DateOf(ch.dueDate).nan
       /\ DateOf(ch.dueDate).v <= t

\* line 291
isNewChallenge(ch, t) ==
    /\ ToBoolean(ch.createdAt)
    /\ ~DateOf(ch.createdAt).nan
    /\ t - DateOf(ch.createdAt).v < 24 * 60 * 60 * 1000
    /\ ~isEnded(ch, t)

NoBadge == "none"

\* lines 293-385: the text of the badge, NoBadge for null
getStatusBadge(ch, status, t) ==
    IF ~ToBoolean(ch.adminCreated) /\ ch.status = "open" /\ ~ToBoolean(ch.acceptorStaked)
    THEN "Open"
    ELSE IF /\ ~ToBoolean(ch.adminCreated) /\ ch.status = "pending"
            /\ ToBoolean(ch.acceptorStaked) /\ ~ToBoolean(ch.creatorStaked)
    THEN "Waiting for Creator"
    ELSE IF ~ToBoolean(ch.adminCreated) /\ ch.status = "active"
    THEN "Active"
    ELSE IF ToBoolean(ch.adminCreated)
    THEN IF status = "pending_admin" \/ status = "active" THEN "Awaiting Result"
         ELSE IF status = "completed" THEN "Ended"
         ELSE IF isNewChallenge(ch, t) THEN "New"
         ELSE NoBadge
    ELSE CASE status = "pending" -> "Pending"
           [] status = "active" -> "Live"
           [] status = "completed" -> "Ended"
           [] status = "disputed" -> "Disputed"
           [] status = "cancelled" -> "Cancelled"
           [] status = "pending_admin" -> "Payout"
           [] OTHER -> NoBadge

\* line 527: the badge is asked for only when the status is neither open
\* nor pending
StatusBadgeShown(ch, t) ==
    IF ch.status # "open" /\ ch.status # "pending"
    THEN getStatusBadge(ch, ch.status, t)
    ELSE NoBadge

\* lines 611-623: the placeholder that stands for an opponent not there yet,
\* and the badge under it
OpponentPlaceholder(ch) ==
    /\ ~ToBoolean(ch.adminCreated)
    /\ ch.status = "open" \/ (ch.status = "pending" /\ ~ToBoolean(ch.challengedUser))
    /\ ~ToBoolean(ch.challengedUser) \/ ~ToBoolean(ch.challenged)

PlaceholderBadge(ch) ==
    IF OpponentPlaceholder(ch)
    THEN (IF ch.status = "open" THEN "OPEN" ELSE "PENDING")
    ELSE NoBadge

NativeAddress == Lit("0x0000000000000000000000000000000000000000")

\* line 785
DecimalsOf(paymentTokenAddress) == IF paymentTokenAddress = NativeAddress THEN 18 ELSE 6

\* lines 785-788, in units of 10^-MaxFrac:
\* (BigInt(stakeAmountWei) / BigInt(10 ** decimals)) * BigInt(2), back to a number
StakeVolume(stakeAmountWei, paymentTokenAddress) ==
    LET
        \* a / 10^k on BigInts: the digits of a without the last k, 0 when none is left
        BigIntDivPow10(ds, k) ==
            IF Len(ds) <= k THEN <<"0">> ELSE SubSeq(ds, 1, Len(ds) - k)
    IN
    LET q == BigIntDivPow10(stakeAmountWei.str, DecimalsOf(paymentTokenAddress))
    IN Num((DigitsValue(q) * 2) * Pow10(MaxFrac))

\* lines 777-792: displayVolume in units of 10^-MaxFrac
displayVolume(ch) ==
    LET
        \* x || 0 of a number prop
        OrZero(x) == IF ToBoolean(x) THEN x.v ELSE 0
    IN
    IF ToBoolean(ch.adminCreated)
    THEN Num((OrZero(ch.yesStakeTotal) + OrZero(ch.noStakeTotal)) * Pow10(MaxFrac))
    ELSE IF ToBoolean(ch.stakeAmountWei)
    THEN StakeVolume(ch.stakeAmountWei, ch.paymentTokenAddress)
    ELSE LET amount == parseFloat(IF ch.amount = Absent THEN <<"u">> ELSE ch.amount.str)
         IN IF NumTruthy(amount) THEN Num(amount.v * 2) ELSE Num(0)

\* lines 591-601: the badge under the challenger's avatar
ChallengerSideBadge(ch) == IF ch.challengerSide = Lit("NO") THEN "NO" ELSE "YES"

\* lines 644-654: the badge under the challenged user's avatar, which is
\* rendered when the placeholder is not
ChallengedSideBadge(ch) ==
    IF ch.challengerSide = Lit("NO") \/ ~ToBoolean(ch.challengerSide) THEN "YES" ELSE "NO"

\* line 787 throws when the stake is no whole number
RenderThrows(ch) ==
    LET
        \* BigInt(text): the text's digits when it is a whole number (the texts
        \* tried carry no sign and no blanks); anything else is a SyntaxError.
        IsWholeNumber(s) == Len(s) > 0 /\ \A i \in 1..Len(s) : IsDigit(s[i])
    IN
    /\ ~ToBoolean(ch.adminCreated)
    /\ ToBoolean(ch.stakeAmountWei)
    /\ ~IsWholeNumber(ch.stakeAmountWei.str)

\* What a render puts on the card, as far as the claims look at it.
Rendered(ch, t) ==
    IF RenderThrows(ch) THEN [threw |-> "SyntaxError"]
    ELSE [layout |-> IF ~ToBoolean(ch.adminCreated) THEN "versus" ELSE "yes/no",
          statusBadge |-> StatusBadgeShown(ch, t),
          placeholderBadge |-> PlaceholderBadge(ch),
          challengerBadge |-> IF ~ToBoolean(ch.adminCreated) THEN ChallengerSideBadge(ch)
                              ELSE NoBadge,
          challengedBadge |-> IF ~ToBoolean(ch.adminCreated) /\ ~OpponentPlaceholder(ch)
                              THEN ChallengedSideBadge(ch)
                              ELSE NoBadge,
          activeBonuses |-> getBonusBadge(ch, t),
          displayVolume |-> displayVolume(ch),
          timeLabel |-> getCompactTimeAgo(ch.createdAt, t)]

\* lines 461-913: the component function runs
Render ==
    /\ view' = Rendered(challenge, dateNow)
    /\ view' # view
    /\ UNCHANGED <<challenge, viewer, dateNow, selectedProfileId, showProfileModal,
                   showAcceptModal, isPending, inflight, effects>>
    /\ UNCHANGED serverVars

\* ----------------------------------------------------- the card's specs

\* The server while the card is looked at.
ServerIdle ==
    /\ users = SomeUsers
    /\ challenges = SomeChallenges
    /\ now = Start
    /\ pc = "idle"
    /\ req = NoRequest
    /\ reqUser = Null
    /\ res = NoResponse
    /\ calls = <<>>
    /\ handlerRan = FALSE
    /\ escaped = FALSE

\* The parent hands the card new props after the challenges query was
\* fetched again: the pin flag is what the last pin request that succeeded
\* asked for.
Refetch ==
    LET Pinned == {i \in EffectsOf("answer") :
                      /\ effects[i].ok
                      /\ \E r \in EffectsOf("request") :
                            /\ effects[r].attempt = effects[i].attempt
                            /\ effects[r].url.rest = "/pin"}
        last == CHOOSE i \in Pinned : \A k \in Pinned : k <= i
        asked == CHOOSE r \in EffectsOf("request") : effects[r].attempt = effects[last].attempt
    IN
    /\ Pinned # {}
    /\ challenge.isPinned # Bool(effects[asked].body.pin)
    /\ challenge' = [challenge EXCEPT !.isPinned = Bool(effects[asked].body.pin)]
    /\ UNCHANGED <<viewer, dateNow, selectedProfileId, showProfileModal,
                   showAcceptModal, isPending, inflight, effects, view>>
    /\ UNCHANGED serverVars

InitFlow ==
    /\ ServerIdle
    /\ challenge \in {P2POpen, AdminOpen}
    /\ viewer = Viewer(<<"b">>, TRUE)
    /\ Mounted

NextFlow ==
    \/ \E m \in {"accept", "decline"} : Mutate(m)
    \/ PressPin
    \/ \E open \in BOOLEAN : DialogOpenChange(open)
    \/ PressAccept
    \/ PressCancel
    \/ ChainSettles
    \/ ApiSettles
    \/ Refetch

SpecFlow == InitFlow /\ [][NextFlow]_vars

Minute == 60 * 1000
Hour == 60 * Minute
Day == 24 * Hour

InitRender ==
    LET
        StatusProps(base) ==
            LET
                Statuses ==
                    {"open", "pending", "active", "completed", "cancelled", "disputed", "pending_admin", "ended"}
            IN
            {[base EXCEPT !.status = s, !.acceptorStaked = a, !.creatorStaked = c,
                          !.createdAt = [time |-> CardStart - e], !.dueDate = d,
                          !.challenged = o, !.challengedUser = IF o = Absent THEN Absent ELSE [id |-> o]] :
                s \in Statuses,
                a \in {Absent, Bool(TRUE)},
                c \in {Absent, Bool(TRUE)},
                e \in {Hour, Day - 1, Day},
                d \in {Absent, [time |-> CardStart], [time |-> CardStart + Hour]},
                o \in {Absent, Str(<<"c">>)}}
    IN
    LET
        VolumeProps(base) ==
            LET
                \* Raw stakes of the native currency: a whole and a broken multiple of 10^18.
                NativeStakes ==
                    {Str(<<"2">> \o [i \in 1..18 |-> "0"]),
                     Str(<<"1", "5">> \o [i \in 1..17 |-> "0"])}
            IN
            LET
                \* Raw stakes of a token with six decimals: whole and broken multiples of
                \* 10^6, small ones, zero, none, and one that is no whole number.
                TokenStakes ==
                    {Absent, Str(<<>>), Str(<<"0">>), Str(<<"1">>),
                     Str(<<"2">> \o [i \in 1..6 |-> "0"]),
                     Str(<<"2", "5">> \o [i \in 1..5 |-> "0"]),
                     Str([i \in 1..6 |-> "9"]),
                     Str(<<"1", "9", "9", "9", "9", "9", "9">>),
                     Str(<<"1", ".", "5">>)}
            IN
            {[base EXCEPT !.stakeAmountWei = w, !.paymentTokenAddress = p, !.amount = a] :
                w \in TokenStakes,
                p \in {Absent, NativeAddress, TokenAddress},
                a \in {Absent, Str(<<"1", "0">>), Str(<<"5", ".", "5">>)}}
            \cup {[base EXCEPT !.stakeAmountWei = w, !.paymentTokenAddress = NativeAddress] :
                    w \in NativeStakes}
    IN
    LET
        \* Peer-to-peer props with and without an opponent, for every kind of
        \* challengerSide.
        SideProps(base) ==
            {[base EXCEPT !.challengerSide = side, !.status = s,
                          !.challenged = o, !.challengedUser = IF o = Absent THEN Absent ELSE [id |-> o]] :
                side \in {Absent, Null, Lit(""), Lit("YES"), Lit("NO"), Lit("yes")},
                s \in {"open", "pending", "active"},
                o \in {Absent, Str(<<"c">>)}}
    IN
    LET
        TimeProps(base) ==
            LET
                \* How long ago a card was created: around every change of unit, the spec's
                \* four examples, and a time still to come.
                Elapsed ==
                    {0 - Minute, 0, Minute - 1, 45 * Minute, Hour - 1, Hour, 5 * Hour, Day - 1, Day,
                     3 * Day, 7 * Day - 1, 7 * Day, 14 * Day - 1, 20 * Day, 24 * Day}
            IN
            {[base EXCEPT !.createdAt = c] :
                c \in {Absent, Lit("yesterday")} \cup {[time |-> CardStart - e] : e \in Elapsed}}
    IN
    LET
        \* Props that differ from base in the fields a bonus is derived from.
        BonusProps(base) ==
            {[base EXCEPT !.bonusEndsAt = e, !.bonusSide = s, !.bonusAmount = a,
                          !.bonusMultiplier = m, !.earlyBirdSlots = b, !.streakBonusEnabled = k] :
                e \in {Absent, Null, Lit("soon"), [time |-> CardStart - 1], [time |-> CardStart],
                       [time |-> CardStart + 1]},
                s \in {Absent, Lit(""), Lit("YES")},
                a \in {Absent, Num(0), Num(500)},
                m \in {Absent, Lit("1.5")},
                b \in {Absent, Num(0), Num(5), Num(-1)},
                k \in {Absent, Bool(FALSE), Bool(TRUE)}}
    IN
    /\ ServerIdle
    /\ challenge \in BonusProps(P2POpen) \cup VolumeProps(P2POpen) \cup VolumeProps(AdminOpen)
                     \cup TimeProps(P2POpen) \cup StatusProps(P2POpen) \cup StatusProps(AdminOpen)
                     \cup SideProps(P2POpen)
    /\ viewer = Anonymous
    /\ Mounted

NextRender == Render

SpecRender == InitRender /\ [][NextRender]_vars

\* ------------------------------------------------ the card's interactions

MaxClicks == 2    \* most clicks followed on one card

\* A click on one of the card's elements, and a call of useAuth().login, are
\* kept in the effects with what the handlers call.
Click(target) == [kind |-> "click", attempt |-> 0, target |-> target]
LoginCall == [kind |-> "login", attempt |-> 0]

\* Presses of the pin button count as clicks.
CanClick == Cardinality(EffectsOf("click")) + Cardinality(EffectsOf("mutate")) < MaxClicks

\* x?.id
IdOf(x) == IF x \in {Absent, Null} THEN Absent ELSE x.id

\* line 455
hasJoined(ch, v) == IdOf(v.user) = ch.challenger \/ IdOf(v.user) = ch.challenged

\* As JoinAllowed, had it not looked at who the viewer is.
JoinAllowed_IgnoresJoined(ch, v) == ch.status # "completed" /\ ch.status # "ended"

\* lines 664 and 681, the test in onClick; line 667 and 684, disabled is its
\* negation
JoinAllowed(ch, v) == (ch.status # "completed" /\ ch.status # "ended") /\ ~hasJoined(ch, v)

\* lines 660-695: a click on Yes or on No, which the yes/no layout renders.
\* The parent is taken to have supplied onJoin.
ClickJoin(side) ==
    /\ ToBoolean(challenge.adminCreated)
    /\ CanClick
    /\ effects' = effects \o <<Click(side)>>
                  \o (IF JoinAllowed(challenge, viewer)
                      THEN <<[kind |-> "onJoin", attempt |-> 0,
                              arg |-> [f \in DOMAIN challenge \cup {"selectedSide"} |->
                                          IF f = "selectedSide" THEN side ELSE challenge[f]]]>>
                      ELSE <<>>)
    /\ UNCHANGED <<challenge, viewer, dateNow, selectedProfileId, showProfileModal,
                   showAcceptModal, isPending, inflight, view>>
    /\ UNCHANGED serverVars

\* As handleAvatarClick, had it not looked at isAuthenticated.
handleAvatarClick_NoAuthCheck(target, profileId) ==
    /\ effects' = effects \o <<Click(target)>>
    /\ IF ToBoolean(challenge.adminCreated) \/ ~ToBoolean(profileId)
       THEN UNCHANGED <<selectedProfileId, showProfileModal>>
       ELSE selectedProfileId' = profileId /\ showProfileModal' = TRUE

\* lines 118-133
handleAvatarClick(target, profileId) ==
    IF ToBoolean(challenge.adminCreated) \/ ~ToBoolean(profileId)
    THEN /\ effects' = effects \o <<Click(target)>>
         /\ UNCHANGED <<selectedProfileId, showProfileModal>>
    ELSE IF ~viewer.isAuthenticated
    THEN /\ effects' = effects
                \o <<Click(target),
                      Toast(0, "Authentication Required",
                            <<"Please log in to view user profiles">>, Absent),
                      LoginCall>>
         /\ UNCHANGED <<selectedProfileId, showProfileModal>>
    ELSE /\ effects' = effects \o <<Click(target)>>
         /\ selectedProfileId' = profileId
         /\ showProfileModal' = TRUE

\* lines 572 and 628: a click on the challenger's avatar, which the versus
\* layout always renders, or on the challenged user's, rendered when the
\* placeholder is not
ClickAvatar(who) ==
    /\ ~ToBoolean(challenge.adminCreated)
    /\ who = "challenged" => ~OpponentPlaceholder(challenge)
    /\ CanClick
    /\ handleAvatarClick(who, IF who = "challenger" THEN IdOf(challenge.challengerUser)
                                                     ELSE IdOf(challenge.challengedUser))
    /\ UNCHANGED <<challenge, viewer, dateNow, showAcceptModal, isPending, inflight, view>>
    /\ UNCHANGED serverVars

\* line 827: the overlay is rendered
ProfileShown == showProfileModal /\ ToBoolean(selectedProfileId)

\* line 830: onClose of the overlay
CloseProfile ==
    /\ ProfileShown
    /\ showProfileModal' = FALSE
    /\ UNCHANGED <<challenge, viewer, dateNow, selectedProfileId, showAcceptModal,
                   isPending, inflight, effects, view>>
    /\ UNCHANGED serverVars

\* As ClickAccept, had the button opened the confirmation modal.
ClickAccept_OpensModal ==
    /\ challenge.status = "open" /\ ~ToBoolean(challenge.adminCreated)
    /\ ~ToBoolean(challenge.challenged)
    /\ CanClick
    /\ effects' = effects \o <<Click("accept")>>
    /\ showAcceptModal' = viewer.isAuthenticated
    /\ UNCHANGED <<challenge, viewer, dateNow, selectedProfileId, showProfileModal,
                   isPending, inflight, view>>
    /\ UNCHANGED serverVars

\* lines 499-526: a click on Accept of an open challenge.  Unauthenticated,
\* it prompts login; on one's own challenge the button has no handler;
\* otherwise it is ConfirmAndStakeButton, which is handed the challenge id
\* and a role and no way to the card's state.
ClickAccept ==
    /\ challenge.status = "open" /\ ~ToBoolean(challenge.adminCreated)
    /\ ~ToBoolean(challenge.challenged)
    /\ CanClick
    /\ effects' = effects \o <<Click("accept")>>
           \o (IF ~viewer.isAuthenticated
               THEN <<Toast(0, "Authentication Required",
                            <<"Please log in to accept challenges">>, Absent),
                      LoginCall>>
               ELSE IF IdOf(viewer.user) = challenge.challenger
               THEN <<>>
               ELSE <<[kind |-> "ConfirmAndStakeButton", attempt |-> 0,
                       challengeId |-> challenge.id, role |-> "acceptor"]>>)
    /\ UNCHANGED <<challenge, viewer, dateNow, selectedProfileId, showProfileModal,
                   showAcceptModal, isPending, inflight, view>>
    /\ UNCHANGED serverVars

\* line 489: a click on the title navigates; lines 701-706: a click on the
\* comment count of an admin-created card calls onChatClick
ClickElsewhere(target) ==
    /\ target = "chat" => ToBoolean(challenge.adminCreated)
    /\ CanClick
    /\ effects' = effects \o <<Click(target),
                               [kind |-> IF target = "title" THEN "navigate" ELSE "onChatClick",
                                attempt |-> 0, id |-> challenge.id]>>
    /\ UNCHANGED <<challenge, viewer, dateNow, selectedProfileId, showProfileModal,
                   showAcceptModal, isPending, inflight, view>>
    /\ UNCHANGED serverVars

\* Who may look at the card: nobody logged in, the challenger a, and an
\* admin b who takes no part.
Viewers == {Anonymous, Viewer(<<"a">>, FALSE), Viewer(<<"b">>, TRUE)}

\* useAuth() hands the card another viewer: somebody logs in or out.
SetViewer(v) ==
    /\ v # viewer
    /\ viewer' = v
    /\ UNCHANGED <<challenge, dateNow, selectedProfileId, showProfileModal,
                   showAcceptModal, isPending, inflight, effects, view>>
    /\ UNCHANGED serverVars

InitCard ==
    LET
        \* The challenges a card is mounted with: peer-to-peer ones without and with
        \* an opponent and without a challenger record, and admin-created ones
        \* running, completed and ended, before and after their due date, without
        \* and with participants.
        CardChallenges ==
            {P2POpen,
             [P2POpen EXCEPT !.challengerUser = Absent],
             [P2POpen EXCEPT !.challengerUser = [id |-> Str(<<>>)]],
             [P2POpen EXCEPT !.status = "active", !.challenged = Str(<<"c">>),
                             !.challengedUser = [id |-> Str(<<"c">>)]]}
            \cup {[AdminOpen EXCEPT !.status = s, !.dueDate = d] :
                      s \in {"active", "completed", "ended"},
                      d \in {Absent, [time |-> CardStart - 1]}}
            \cup {AdminOpen,
                  [AdminOpen EXCEPT !.challenger = Null, !.challenged = Null],
                  [AdminOpen EXCEPT !.challenger = Str(<<"a">>)],
                  [AdminOpen EXCEPT !.challenged = Str(<<"a">>)]}
    IN
    /\ ServerIdle
    /\ challenge \in CardChallenges
    /\ viewer \in Viewers
    /\ Mounted

\* Every handler the card itself can run.  The dialog of line 835 has no
\* trigger and its two buttons are mounted only while it is open.
NextCard ==
    \/ \E who \in {"challenger", "challenged"} : ClickAvatar(who)
    \/ CloseProfile
    \/ \E side \in {"yes", "no"} : ClickJoin(side)
    \/ ClickAccept
    \/ \E target \in {"title", "chat"} : ClickElsewhere(target)
    \/ CanClick /\ PressPin
    \/ ApiSettles
    \/ Refetch
    \/ \E v \in Viewers : SetViewer(v)

SpecCard == InitCard /\ [][NextCard]_vars

\* ================================================================ claims

AdminRoutes == {"stats", "users", "user", "challenges", "action"}

\* The bearer token of the request in hand.
BearerToken == TokenOf(req.authorization)

UnderscoresOf(s) == {i \in 1..Len(s) : s[i] = "_"}

\* The token reads admin_..., told character by character.
ReadsAdmin(t) ==
    /\ t # Absent
    /\ Len(t.str) >= 6
    /\ t.str[1] = "a" /\ t.str[2] = "d" /\ t.str[3] = "m"
    /\ t.str[4] = "i" /\ t.str[5] = "n" /\ t.str[6] = "_"

\* admin_<id>_<ts>: the prefix, and at least two underscores, which is at
\* least three segments.
WellFormed(t) == ReadsAdmin(t) /\ Cardinality(UnderscoresOf(t.str)) >= 2

\* What lies between the first and the last underscore of a well-formed token.
NamedId(s) ==
    LET first == CHOOSE i \in UnderscoresOf(s) : \A k \in UnderscoresOf(s) : i <= k
        last == CHOOSE i \in UnderscoresOf(s) : \A k \in UnderscoresOf(s) : i >= k
    IN SubSeq(s, first + 1, last - 1)

\* What follows the last underscore: the token's timestamp.
LastSegment(s) ==
    LET last == CHOOSE i \in UnderscoresOf(s) : \A k \in UnderscoresOf(s) : i >= k
    IN SubSeq(s, last + 1, Len(s))

StoredAs(id) == {i \in 1..Len(users) : users[i].id = id}
FlaggedAdmin(id) == \E i \in StoredAs(id) : users[i].isAdmin

NoneThrew(cs) == \A i \in 1..Len(cs) : ~cs[i].threw
SomeThrew(cs) == \E i \in 1..Len(cs) : cs[i].threw

\* C1: a request to an admin route whose bearer token is absent, does not
\* start with admin_ or has fewer than three underscore segments is answered
\* 401; getUser is never called for it and its route handler never runs.
C1_MalformedTokenIs401 ==
    (req.route \in AdminRoutes /\ ~WellFormed(BearerToken)) =>
        /\ pc # "route"
        /\ ~handlerRan
        /\ reqUser = Null
        /\ \A i \in 1..Len(calls) : calls[i].fn # "getUser"
        /\ pc = "done" => res.status = 401

\* C1 witness: admin_ followed by a single segment has been answered 401.
C1_Witness ==
    /\ pc = "done"
    /\ req.route \in AdminRoutes
    /\ ReadsAdmin(BearerToken)
    /\ Cardinality(UnderscoresOf(BearerToken.str)) = 1
    /\ Len(BearerToken.str) > 6
    /\ res.status = 401

\* adminAuth has just decided the request in hand, whose token is well formed.
AuthDecides == pc = "auth" /\ pc' # "auth" /\ WellFormed(BearerToken)

\* C2: for a well-formed token adminAuth looks up exactly the user named
\* between the first and the last underscore; when the lookup returns, an
\* absent or non-admin user is answered 403 and the handler does not run, an
\* admin is attached to the request and the handler runs with that user.
C2_Step ==
    /\ AuthDecides =>
          LET id == NamedId(BearerToken.str) IN
          /\ Len(calls') = 1
          /\ calls'[1].fn = "getUser"
          /\ calls'[1].args = <<Str(id)>>
          /\ ~calls'[1].threw =>
                IF ~FlaggedAdmin(id)
                THEN res'.status = 403 /\ pc' = "done" /\ reqUser' = Null
                ELSE /\ pc' = "route"
                     /\ reqUser' \in {users[i] : i \in StoredAs(id)}
                     /\ reqUser'.id = id
    /\ (req.route \in AdminRoutes /\ ~handlerRan /\ handlerRan') =>
          pc = "route" /\ reqUser' = reqUser /\ reqUser # Null
    /\ (req'.route \in AdminRoutes /\ res'.status = 403) => ~handlerRan'

C2_NamedUserDecides == [][C2_Step]_vars

\* C2 witness: the admin whose id holds an underscore has been attached.
C2_Witness ==
    /\ pc = "route"
    /\ reqUser # Null
    /\ reqUser.id = <<"u", "_", "1">>
    /\ NamedId(BearerToken.str) = <<"u", "_", "1">>

\* C3: whenever adminAuth's lookup returns for a well-formed token, the
\* request is admitted if and only if the named user is flagged admin in the
\* store at that moment, whatever the token's last segment is and whatever
\* earlier requests were answered; otherwise it is answered 403.
C3_Step ==
    (AuthDecides /\ NoneThrew(calls')) =>
        /\ (pc' = "route") <=> FlaggedAdmin(NamedId(BearerToken.str))
        /\ (pc' # "route") => res'.status = 403

C3_FlagCheckedEveryRequest == [][C3_Step]_vars

\* C3 witness: a request whose token ends in no number was admitted while u
\* was flagged admin, and u's flag has been cleared since.
C3_Witness ==
    /\ pc = "route"
    /\ reqUser # Null
    /\ reqUser.id = <<"u">>
    /\ \A i \in 1..Len(LastSegment(BearerToken.str)) : ~IsDigit(LastSegment(BearerToken.str)[i])
    /\ ~users[1].isAdmin

\* The fixed body each admin route answers a thrown error with.
RouteFailure(route) ==
    CASE route = "stats" -> "Failed to fetch stats"
      [] route = "users" -> "Failed to fetch users"
      [] route = "user" -> "Failed to fetch user"
      [] route = "challenges" -> "Failed to fetch challenges"
      [] OTHER -> "Failed to execute action"

ThrownError == calls[Len(calls)].error

IsLogin == req.route = "wallet-login"
CallsOf(fn) == {i \in 1..Len(calls) : calls[i].fn = fn}

\* C5: wallet-login with an absent or empty walletAddress is answered 400
\* and calls neither getOrCreateSupabaseUser nor generateSupabaseToken.
C5_MissingWalletIs400 ==
    (IsLogin /\ req.body.walletAddress \in {Absent, Str(<<>>)}) =>
        /\ CallsOf("getOrCreateSupabaseUser") = {}
        /\ CallsOf("generateSupabaseToken") = {}
        /\ ~escaped
        /\ pc = "done" => res.status = 400

\* C5 witness: an empty walletAddress has been answered 400.
C5_Witness ==
    /\ IsLogin
    /\ pc = "done"
    /\ req.body.walletAddress = Str(<<>>)
    /\ res.status = 400

\* Provisioning returned a user and issuance returned a token.
BothReturned ==
    /\ Len(calls) = 2
    /\ ~calls[1].threw /\ calls[1].ret \in ProvisionedUsers
    /\ ~calls[2].threw /\ calls[2].ret \notin {Absent, Null, Str(<<>>)}

\* C6: wallet-login with a walletAddress, a returned user and a returned
\* token answers 200 {success: true, token, user: {id, email, wallet}}: the
\* token is the one issued for (user.id, the request's walletAddress) and id,
\* email and wallet are the provisioned user's.
C6_LoginAnswersProvisionedUser ==
    (IsLogin /\ pc = "done" /\ BothReturned) =>
        /\ calls[1].fn = "getOrCreateSupabaseUser"
        /\ calls[1].args = <<req.body.walletAddress, req.body.email>>
        /\ calls[2].fn = "generateSupabaseToken"
        /\ calls[2].args = <<calls[1].ret.id, req.body.walletAddress>>
        /\ res.status = 200
        /\ res.body = [success |-> TRUE,
                       token |-> calls[2].ret,
                       user |-> [id |-> calls[1].ret.id,
                                 email |-> calls[1].ret.email,
                                 wallet |-> calls[1].ret.wallet]]

\* C6 witness: a login has succeeded for a provisioned user without email
\* whose stored wallet is not written as the request wrote it.
C6_Witness ==
    /\ IsLogin
    /\ pc = "done"
    /\ BothReturned
    /\ res.status = 200
    /\ res.body.user.email = Absent
    /\ res.body.user.wallet # req.body.walletAddress

\* C7: wallet-login calls provisioning at most once and issuance at most
\* once, issuance only after provisioning has returned a user; provisioning
\* returning no user is answered 500 with issuance never called, issuance
\* returning no token is answered 500, and neither sends a success body.
C7_ProvisionThenIssueOnce ==
    IsLogin =>
        /\ Cardinality(CallsOf("getOrCreateSupabaseUser")) <= 1
        /\ Cardinality(CallsOf("generateSupabaseToken")) <= 1
        /\ \A i \in CallsOf("generateSupabaseToken") :
              /\ i = 2
              /\ calls[1].fn = "getOrCreateSupabaseUser"
              /\ ~calls[1].threw /\ calls[1].ret \in ProvisionedUsers
        /\ (pc = "done" /\ Len(calls) >= 1 /\ ~calls[1].threw /\ calls[1].ret \in {Null, Absent}) =>
              /\ CallsOf("generateSupabaseToken") = {}
              /\ res.status = 500
              /\ res.body = [error |-> "Failed to create user"]
        /\ (pc = "done" /\ Len(calls) = 2 /\ ~calls[2].threw
                /\ calls[2].ret \in {Null, Absent, Str(<<>>)}) =>
              /\ res.status = 500
              /\ res.body = [error |-> "Failed to generate token"]

\* C7 witness: issuance returned an empty token after provisioning returned
\* a user, and the answer was 500.
C7_Witness ==
    /\ IsLogin
    /\ pc = "done"
    /\ Len(calls) = 2
    /\ ~calls[2].threw
    /\ calls[2].ret = Str(<<>>)
    /\ res.status = 500

IsStatsAnswer == req.route = "stats" /\ pc = "done" /\ res.status = 200

\* What an amount contributes as the claim has it: its parsed value, and 0
\* when it is absent or does not parse.
ClaimedAmount(amount) ==
    IF amount \in {Absent, Null} THEN 0
    ELSE IF parseFloat(amount.str).nan THEN 0
    ELSE parseFloat(amount.str).v

RECURSIVE ClaimedTotal(_)
ClaimedTotal(cs) ==
    IF Len(cs) = 0 THEN 0 ELSE ClaimedAmount(Head(cs).amount) + ClaimedTotal(Tail(cs))

\* C8 as stated: totalVolume and totalChallengeStaked are equal and both
\* are the sum of the parsed amounts, an absent or unparsable amount
\* counting as 0.
C8_Original ==
    IsStatsAnswer =>
        /\ res.body.totalVolume = res.body.totalChallengeStaked
        /\ res.body.totalVolume = Num(ClaimedTotal(challenges))

\* The last clock reading the stats handler took.
LastReading == calls[Len(calls)].ret.time

\* The users created at or after the instant n minus seven days.
CreatedSince(n) ==
    {i \in 1..Len(users) :
        /\ users[i].createdAt \notin {Absent, Null}
        /\ users[i].createdAt.time >= n - 7 * MsPerDay}

\* C9 as stated: newUsersThisWeek counts exactly the users created at or
\* after now minus seven days, for some one instant now between the
\* request's arrival and the handler's last look at the clock.
C9_Original ==
    (IsStatsAnswer /\ Len(users) > 0) =>
        \E n \in now..LastReading :
            res.body.newUsersThisWeek = Cardinality(CreatedSince(n))

IsListAnswer == req.route \in {"users", "challenges"} /\ pc = "done" /\ res.status = 200

AllDigits(s) == Len(s) > 0 /\ \A i \in 1..Len(s) : IsDigit(s[i])

\* A query text the claim speaks of: absent, a non-negative integer, or a
\* text with no number at its head.
Claimed(text) ==
    text = Absent \/ AllDigits(text.str) \/ Len(text.str) = 0
        \/ (~IsDigit(text.str[1]) /\ text.str[1] \notin {"-", "+"})

\* Its value as the claim has it: the integer, or the default.
ClaimedValue(text, default) ==
    IF text # Absent /\ AllDigits(text.str) THEN DigitsValue(text.str) ELSE default

Collection == IF req.route = "users" THEN users ELSE challenges

\* C10 as stated: the answer holds exactly the items at positions offset to
\* offset + limit - 1 of the collection, clipped to its length, in order.
C10_Original ==
    (IsListAnswer /\ Claimed(req.limit) /\ Claimed(req.offset)) =>
        LET limit == ClaimedValue(req.limit, 100)
            offset == ClaimedValue(req.offset, 0)
            all == Collection
        IN /\ Len(res.body.items) <= limit
           /\ [i \in 1..Len(res.body.items) |-> res.body.items[i].id]
                = [i \in 1..(Min(offset + limit, Len(all)) - Min(offset, Len(all))) |->
                      all[offset + i].id]

\* The route handler of the request in hand is entered by this step.
HandlerStep(route) == req.route = route /\ ~handlerRan /\ handlerRan'

\* C11: once adminAuth has passed, the user-action handler answers 200
\* {success: true, message} whatever the body's action, value and reason
\* are, the empty body included, calls no dependency, and leaves the user
\* store and the challenges table as they were before the request.
C11_Step ==
    HandlerStep("action") =>
        /\ pc = "route" /\ reqUser # Null
        /\ users' = users
        /\ challenges' = challenges
        /\ calls' = calls
        /\ pc' = "done"
        /\ res'.status = 200
        /\ res'.body.success = TRUE
        /\ res'.body.message = ActionMessage(req.body.action)

ListFields == DOMAIN UserListView(users[1])

\* C12 as stated: GET /users/:userId answers 404 when no user is stored
\* under the id, and otherwise a view with exactly the fields of an element
\* of the user list, streak among them.
C12_Original ==
    (req.route = "user" /\ pc = "done" /\ handlerRan /\ NoneThrew(calls)) =>
        IF StoredAs(req.userId.str) = {}
        THEN res.status = 404
        ELSE /\ res.status = 200
             /\ "streak" \in ListFields
             /\ DOMAIN res.body = ListFields

\* ------------------------------------------------ claims about the card

\* The effects made for attempt n, by kind.
OfAttempt(kind, n) == {i \in EffectsOf(kind) : effects[i].attempt = n}

AcceptOpenAttempts == {effects[i].attempt : i \in {k \in EffectsOf("mutate") : effects[k].m = "acceptOpen"}}

\* The accept-open requests sent.
AcceptOpenRequests ==
    {i \in EffectsOf("request") : effects[i].url.rest = "/accept-open"}

SigningPrefix == "Blockchain signing failed: "

\* C13: every POST /challenges/:id/accept-open comes after the on-chain
\* acceptance of the same attempt has returned and carries the transaction
\* hash it returned; an attempt whose on-chain call failed sends no
\* accept-open request and ends with the error notification whose message
\* begins "Blockchain signing failed".
C13_AcceptOpenTwoPhase ==
    /\ \A i \in AcceptOpenRequests :
          /\ effects[i].method = "POST"
          /\ effects[i].url = Url(challenge.id, "/accept-open")
          /\ effects[i].attempt \in AcceptOpenAttempts
          /\ \E j \in OfAttempt("chainAnswer", effects[i].attempt) :
                /\ j < i
                /\ ~effects[j].threw
                /\ effects[j].value # Absent
                /\ effects[i].body = [transactionHash |-> effects[j].value.transactionHash]
          /\ \A k \in AcceptOpenRequests : effects[k].attempt = effects[i].attempt => k = i
    /\ \A j \in EffectsOf("chainAnswer") :
          effects[j].threw =>
             /\ \A i \in AcceptOpenRequests : effects[i].attempt # effects[j].attempt
             /\ \A a \in inflight : a.attempt # effects[j].attempt
             /\ \E t \in OfAttempt("toast", effects[j].attempt) :
                   /\ t > j
                   /\ effects[t].variant = "destructive"
                   /\ Len(effects[t].description) >= 1
                   /\ effects[t].description[1] = SigningPrefix
             /\ OfAttempt("invalidate", effects[j].attempt) = {}

\* C13 witness: a first attempt failed on chain with the wallet's message
\* and sent nothing; a second sent accept-open with the hash 0xbb.
C13_Witness ==
    /\ \E j \in OfAttempt("chainAnswer", 1) :
          effects[j].threw /\ effects[j].value.message = <<"User rejected the request">>
    /\ \E t \in OfAttempt("toast", 1) :
          effects[t].description = <<SigningPrefix, "User rejected the request">>
    /\ \E i \in AcceptOpenRequests :
          effects[i].attempt = 2 /\ effects[i].body.transactionHash = Lit("0xbb")

\* This step brings the answer to a request of an accept-open attempt.
AcceptOpenAnswered ==
    /\ Len(effects') > Len(effects)
    /\ effects'[Len(effects) + 1].kind = "answer"
    /\ \E a \in inflight : a.attempt = effects'[Len(effects) + 1].attempt /\ a.m = "acceptOpen"

\* The answer this step brings.
TheAnswer == effects'[Len(effects) + 1]

\* What the card adds to its effects in this step, after the answer.
AfterAnswer == SubSeq(effects', Len(effects) + 2, Len(effects'))

\* C14 as stated: when the accept-open request fails after a successful
\* on-chain signature, the card shows the contention message, shows no
\* success notification, does not invalidate the challenge cache and leaves
\* the confirmation modal as it is.
C14_OriginalStep ==
    (AcceptOpenAnswered /\ ~TheAnswer.ok) =>
        /\ AfterAnswer = <<Toast(TheAnswer.attempt, "Error", ContentionMessage, "destructive")>>
        /\ showAcceptModal' = showAcceptModal

C14_Original == [][C14_OriginalStep]_vars

\* C14 as amended: when the accept-open request fails after a successful
\* on-chain signature, the card shows one error notification that carries
\* the failure's own message, and the contention message only when the
\* failure has no message; it shows no success notification, does not
\* invalidate the challenge cache and leaves the confirmation modal as it is.
C14_Step ==
    (AcceptOpenAnswered /\ ~TheAnswer.ok) =>
        /\ AfterAnswer =
              <<Toast(TheAnswer.attempt, "Error",
                      IF TheAnswer.error.message = <<>> THEN ContentionMessage
                      ELSE TheAnswer.error.message,
                      "destructive")>>
        /\ showAcceptModal' = showAcceptModal
        /\ \E j \in OfAttempt("chainAnswer", TheAnswer.attempt) : ~effects[j].threw

C14_ServerFailureShown == [][C14_Step]_vars

\* C14 witness: the accept-open request of the first attempt was refused
\* with a message, that message is what the card showed, nothing was
\* invalidated and the modal is still open.
C14_Witness ==
    /\ showAcceptModal
    /\ Len(effects) = 6
    /\ effects[1].m = "acceptOpen"
    /\ effects[4].kind = "request"
    /\ effects[5] = ApiAnswer(1, FALSE, [message |-> <<"409: Challenge already accepted">>])
    /\ effects[6].kind = "toast"
    /\ effects[6].description = <<"409: Challenge already accepted">>
    /\ EffectsOf("invalidate") = {}

\* What this step adds to the effects.
Added == SubSeq(effects', Len(effects) + 1, Len(effects'))

AddedOf(kind) == {i \in 1..Len(Added) : Added[i].kind = kind}

\* The mutation an attempt belongs to.
MutationOf(n) == effects[CHOOSE k \in EffectsOf("mutate") : effects[k].attempt = n].m

\* C15: for accept, decline, pin and accept-open alike, the card
\* invalidates the "/api/challenges" cache exactly in the step in which the
\* mutation's request is answered with success, once and for that attempt,
\* and never when the request or the on-chain call fails; and no step of
\* the card changes the challenge it was handed: only a refetch does.
C15_Step ==
    /\ Len(effects') >= Len(effects) /\ SubSeq(effects', 1, Len(effects)) = effects
    /\ \A i \in AddedOf("answer") :
          IF Added[i].ok
          THEN /\ Cardinality(AddedOf("invalidate")) = 1
               /\ \A k \in AddedOf("invalidate") :
                     /\ k > i
                     /\ Added[k] = Invalidate(Added[i].attempt, <<"/api/challenges">>)
          ELSE AddedOf("invalidate") = {}
    /\ \A k \in AddedOf("invalidate") : \E i \in AddedOf("answer") : Added[i].ok
    /\ \A i \in AddedOf("chainAnswer") : Added[i].threw => AddedOf("invalidate") = {}
    /\ (effects' # effects \/ inflight' # inflight \/ showAcceptModal' # showAcceptModal
            \/ isPending' # isPending) =>
          challenge' = challenge

C15_InvalidatedOnSuccessOnly == [][C15_Step]_vars

\* C15 witness: a decline succeeded and a pin failed; the cache was
\* invalidated once, for the decline, and the challenge is as it was handed
\* to the card.
C15_Witness ==
    /\ \E i \in EffectsOf("answer") :
          effects[i].ok /\ MutationOf(effects[i].attempt) = "decline"
          /\ OfAttempt("invalidate", effects[i].attempt) # {}
    /\ \E i \in EffectsOf("answer") :
          ~effects[i].ok /\ MutationOf(effects[i].attempt) = "pin"
          /\ OfAttempt("invalidate", effects[i].attempt) = {}
    /\ Cardinality(EffectsOf("invalidate")) = 1
    /\ challenge = AdminOpen

\* The card has been rendered and the render did not throw.
Shown == view # Absent /\ "threw" \notin DOMAIN view

\* The bonus end lies in the future and a bonus side is set.
WeakSideDue ==
    /\ challenge.bonusEndsAt \notin {Absent, Null}
    /\ "time" \in DOMAIN challenge.bonusEndsAt
    /\ challenge.bonusEndsAt.time > dateNow
    /\ challenge.bonusSide \notin {Absent, Null, Lit("")}

EarlyBirdDue ==
    /\ challenge.earlyBirdSlots \notin {Absent, Null, NaN}
    /\ challenge.earlyBirdSlots.v > 0

StreakDue == challenge.streakBonusEnabled = Bool(TRUE)

DueTypes ==
    SelectSeq(<<"weak_side", "early_bird", "streak">>,
              LAMBDA x : \/ x = "weak_side" /\ WeakSideDue
                         \/ x = "early_bird" /\ EarlyBirdDue
                         \/ x = "streak" /\ StreakDue)

\* C16: the bonus list holds, in the order weak_side, early_bird, streak
\* and with nothing else: weak_side exactly when bonusEndsAt is a date in
\* the future and bonusSide is set, labelled with the formatted currency
\* amount when there is a bonusAmount (one of 0 counts as none) and with
\* "<bonusMultiplier>x" otherwise; early_bird exactly when earlyBirdSlots
\* is above 0; streak exactly when streakBonusEnabled is true.
C16_BonusListInOrder ==
    Shown =>
        /\ Len(view.activeBonuses) = Len(DueTypes)
        /\ \A i \in 1..Len(DueTypes) : view.activeBonuses[i].type = DueTypes[i]
        /\ \A i \in 1..Len(view.activeBonuses) :
              CASE view.activeBonuses[i].type = "weak_side" ->
                      /\ i = 1
                      /\ view.activeBonuses[i].side = challenge.bonusSide
                      /\ view.activeBonuses[i].label =
                            IF challenge.bonusAmount \in {Absent, Null, Num(0)}
                            THEN [text |-> <<TemplateText(challenge.bonusMultiplier), "x">>]
                            ELSE [getCurrencySymbol |-> challenge.paymentTokenAddress,
                                  formatTokenAmount |-> challenge.bonusAmount]
                [] view.activeBonuses[i].type = "early_bird" ->
                      view.activeBonuses[i].label = "Early"
                [] OTHER -> view.activeBonuses[i].label = "Streak"

\* C16 witness: all three bonuses are shown, in order, the first labelled
\* with an amount although a multiplier is there too.
C16_Witness ==
    /\ Shown
    /\ challenge.bonusMultiplier = Lit("1.5")
    /\ challenge.earlyBirdSlots = Num(5)
    /\ Len(view.activeBonuses) = 3
    /\ view.activeBonuses[1].type = "weak_side"
    /\ view.activeBonuses[1].label = CurrencyLabel(TokenAddress, Num(500))
    /\ view.activeBonuses[2].type = "early_bird"
    /\ view.activeBonuses[3].type = "streak"

\* Twice a whole number, digit by digit from its last digit.
RECURSIVE DoubleFrom(_, _, _)
DoubleFrom(ds, i, carry) ==
    IF i = 0 THEN (IF carry = 1 THEN <<"1">> ELSE <<>>)
    ELSE LET d == 2 * DigitVal(ds[i]) + carry
         IN DoubleFrom(ds, i - 1, d \div 10) \o <<Digits[(d % 10) + 1]>>

RECURSIVE StripZeros(_)
StripZeros(ds) == IF Len(ds) > 1 /\ ds[1] = "0" THEN StripZeros(Tail(ds)) ELSE ds

\* A whole number times 10^k.
TimesPow10(ds, k) == StripZeros(ds \o [i \in 1..k |-> "0"])

\* A peer-to-peer card with a raw stake that is a whole number is shown.
StakeShown ==
    /\ Shown
    /\ challenge.adminCreated \in {Absent, Null, Bool(FALSE)}
    /\ challenge.stakeAmountWei \notin {Absent, Null, Str(<<>>)}
    /\ \A i \in 1..Len(challenge.stakeAmountWei.str) : IsDigit(challenge.stakeAmountWei.str[i])

\* C17 as stated: on such a card the displayed volume is
\* (stakeAmountWei / 10^decimals) x 2, decimals being 18 for the all-zero
\* address and 6 otherwise, for every stake, a whole multiple of
\* 10^decimals or not: volume x 10^decimals = 2 x stakeAmountWei.
C17_Original ==
    StakeShown =>
        LET decimals ==
                IF challenge.paymentTokenAddress = Lit("0x0000000000000000000000000000000000000000")
                THEN 18 ELSE 6
            stake == challenge.stakeAmountWei.str
        IN /\ ~view.displayVolume.nan
           /\ view.displayVolume.v % Pow10(MaxFrac) = 0
           /\ TimesPow10(IntText(view.displayVolume.v \div Pow10(MaxFrac)), decimals)
                = StripZeros(DoubleFrom(stake, Len(stake), 0))

\* The card's creation time is a date not after now, shown on the card.
CreatedBefore ==
    /\ Shown
    /\ challenge.createdAt \notin {Absent, Null}
    /\ "time" \in DOMAIN challenge.createdAt
    /\ challenge.createdAt.time <= dateNow

ElapsedMs == dateNow - challenge.createdAt.time

\* The label of n units.
Units(n, unit) == Str(IntText(n) \o <<unit>>)

\* C18: for a creation time that lies e before now the compact label is
\* the whole minutes and "m" when e is under 60 minutes, the whole hours and
\* "h" when under 24 hours, the whole days and "d" when under 7 days, and
\* the whole weeks and "w" otherwise, however long ago: 45 minutes give
\* 45m, 5 hours 5h, 3 days 3d and 20 days 2w.
C18_CompactLabel ==
    CreatedBefore =>
        /\ view.timeLabel =
              IF ElapsedMs < 60 * 60 * 1000 THEN Units(ElapsedMs \div (60 * 1000), "m")
              ELSE IF ElapsedMs < 24 * 60 * 60 * 1000 THEN Units(ElapsedMs \div (60 * 60 * 1000), "h")
              ELSE IF ElapsedMs < 7 * 24 * 60 * 60 * 1000
                   THEN Units(ElapsedMs \div (24 * 60 * 60 * 1000), "d")
              ELSE Units(ElapsedMs \div (7 * 24 * 60 * 60 * 1000), "w")
        /\ ElapsedMs = 45 * 60 * 1000 => view.timeLabel = Str(<<"4", "5", "m">>)
        /\ ElapsedMs = 5 * 60 * 60 * 1000 => view.timeLabel = Str(<<"5", "h">>)
        /\ ElapsedMs = 3 * 24 * 60 * 60 * 1000 => view.timeLabel = Str(<<"3", "d">>)
        /\ ElapsedMs = 20 * 24 * 60 * 60 * 1000 => view.timeLabel = Str(<<"2", "w">>)
        /\ view.timeLabel.str[Len(view.timeLabel.str)] \in {"m", "h", "d", "w"}

\* C18 witness: a card created exactly seven days ago is labelled 1w.
C18_Witness ==
    /\ CreatedBefore
    /\ ElapsedMs = 7 * 24 * 60 * 60 * 1000
    /\ view.timeLabel = Str(<<"1", "w">>)

IsOff(flag) == flag \in {Absent, Null, Bool(FALSE)}

\* C19 as stated: on a rendered peer-to-peer card the badge "Open" is
\* shown when the status is open and the acceptor has not staked (the OPEN
\* badge under a missing opponent is taken for it too), "Waiting for
\* Creator" when the status is pending with acceptorStaked and not
\* creatorStaked, and "Active" when the status is active.
C19_Original ==
    (Shown /\ IsOff(challenge.adminCreated)) =>
        /\ (challenge.status = "open" /\ IsOff(challenge.acceptorStaked)) =>
              (view.statusBadge = "Open" \/ view.placeholderBadge = "OPEN")
        /\ (challenge.status = "pending" /\ ~IsOff(challenge.acceptorStaked)
                /\ IsOff(challenge.creatorStaked)) =>
              view.statusBadge = "Waiting for Creator"
        /\ challenge.status = "active" => view.statusBadge = "Active"

\* The challenge is not completed and its due date, if it has one, has not passed.
Unresolved ==
    /\ challenge.status # "completed"
    /\ challenge.dueDate = Absent \/ challenge.dueDate.time > dateNow

CreatedWithinDay ==
    /\ challenge.createdAt \notin {Absent, Null}
    /\ "time" \in DOMAIN challenge.createdAt
    /\ dateNow - challenge.createdAt.time < 24 * 60 * 60 * 1000

\* C20 as stated: on a rendered admin-created card the status active or
\* pending_admin shows "Awaiting Result", completed shows "Ended", and every
\* unresolved challenge created less than 24 hours ago to which neither of
\* the two applies shows "New".
C20_Original ==
    (Shown /\ challenge.adminCreated = Bool(TRUE)) =>
        /\ challenge.status \in {"active", "pending_admin"} => view.statusBadge = "Awaiting Result"
        /\ challenge.status = "completed" => view.statusBadge = "Ended"
        /\ (/\ challenge.status \notin {"active", "pending_admin", "completed"}
            /\ Unresolved
            /\ CreatedWithinDay) =>
              view.statusBadge = "New"

\* C24 as stated: on a rendered peer-to-peer card that shows both parties,
\* the badge under the challenger and the badge under the challenged user
\* show opposite sides, one YES and one NO, whatever challengerSide is.
C24_Original ==
    (Shown /\ view.layout = "versus" /\ view.challengedBadge # NoBadge) =>
        {view.challengerBadge, view.challengedBadge} = {"YES", "NO"}

\* The accept-open attempts whose mutationFn has not settled.
AcceptOpenInFlight == {a \in inflight : a.m = "acceptOpen"}

\* The on-chain calls made.
ChainCalls == EffectsOf("chain")

\* After this step: one accept-open attempt at most is in flight, the modal's
\* two buttons are disabled while it is, and every on-chain call and every
\* accept-open request made so far belongs to one press of Accept: the call
\* comes with the mutate() of its attempt, the request with the answer of the
\* call of its attempt, once each per attempt.
C25_After ==
    /\ Cardinality(AcceptOpenInFlight') <= 1
    /\ AcceptOpenInFlight' # {} => ModalButtonsDisabled'
    /\ \A i \in ChainCalls' :
          /\ i > 1
          /\ effects'[i - 1] = MutateEffect(effects'[i].attempt, "acceptOpen")
          /\ \A k \in ChainCalls' : effects'[k].attempt = effects'[i].attempt => k = i
    /\ \A i \in AcceptOpenRequests' :
          /\ i > 1
          /\ effects'[i - 1].kind = "chainAnswer"
          /\ effects'[i - 1].attempt = effects'[i].attempt
          /\ \A k \in AcceptOpenRequests' : effects'[k].attempt = effects'[i].attempt => k = i
    /\ \A n \in AcceptOpenAttempts' :
          \A t \in OfAttempt("toast", n)' :
              effects'[t].title = "Error" =>
                  /\ \A a \in inflight' : a.attempt # n
                  /\ \A k \in (t + 1)..Len(effects') : effects'[k].attempt # n

\* A step that starts an accept-open attempt is a press of the enabled
\* Accept button of the open modal, while none is in flight; no other step
\* makes an on-chain call.
C25_Step ==
    /\ C25_After
    /\ IF \E i \in AddedOf("mutate") : Added[i].m = "acceptOpen"
       THEN showAcceptModal /\ ~isPending /\ AcceptOpenInFlight = {}
       ELSE AddedOf("chain") = {}
    /\ (isPending /\ showAcceptModal /\ ~showAcceptModal') =>
          (effects' = effects \/ AddedOf("answer") # {})

\* C25: at most one accept-open attempt is in flight per card, both modal
\* buttons are disabled while it is, and nothing is retried: an on-chain
\* call or an accept-open request is made only for an attempt the user
\* started by pressing Accept, and none for an attempt that has failed.
C25_OneAttemptNoRetry == [][C25_Step]_vars

\* C25 witness: the first accept-open attempt failed at the server, the user
\* pressed Accept again, and the second attempt is the only one in flight.
C25_Witness ==
    /\ \E i \in EffectsOf("answer") :
          effects[i].attempt = 1 /\ ~effects[i].ok /\ MutationOf(1) = "acceptOpen"
    /\ AcceptOpenInFlight = {[attempt |-> 2, m |-> "acceptOpen", phase |-> "chain"]}
    /\ isPending
    /\ Cardinality(ChainCalls) = 2

\* ------------------------------------- claims about the card's interactions

\* The click this step handles, when it handles one.
TheClick == Added[CHOOSE i \in AddedOf("click") : TRUE]

\* What onJoin is called with in this step.
JoinCalls == {Added[i].arg : i \in AddedOf("onJoin")}

\* The challenge with the side chosen added to it.
WithSide(ch, side) ==
    [f \in DOMAIN ch \cup {"selectedSide"} |-> IF f = "selectedSide" THEN side ELSE ch[f]]

\* The viewer is the challenge's challenger or its challenged user.
ViewerTakesPart ==
    /\ viewer.user \notin {Absent, Null}
    /\ viewer.user.id \in {challenge.challenger, challenge.challenged}

\* The challenge's status is completed or ended.
CompletedOrEnded == challenge.status \in {"completed", "ended"}

\* C21: onJoin is called only by a click on Yes or No, which only an
\* admin-created card has, with the challenge plus the side of the button
\* pressed as selectedSide, and only when the challenge's status is neither
\* completed nor ended and the viewer is neither its challenger nor its
\* challenged user; when the status is completed or ended, or the viewer
\* has joined, no click calls onJoin.
C21_Step ==
    /\ JoinCalls # {} =>
          /\ ToBoolean(challenge.adminCreated)
          /\ AddedOf("click") # {}
          /\ TheClick.target \in {"yes", "no"}
          /\ JoinCalls = {WithSide(challenge, TheClick.target)}
          /\ ~CompletedOrEnded
          /\ ~ViewerTakesPart
    /\ (CompletedOrEnded \/ ViewerTakesPart) => JoinCalls = {}
    /\ (AddedOf("click") # {} /\ ~ToBoolean(challenge.adminCreated)) =>
          TheClick.target \notin {"yes", "no"}

AvatarClicked == AddedOf("click") # {} /\ TheClick.target \in {"challenger", "challenged"}

\* The id of the user whose avatar was clicked.
ClickedId ==
    IF TheClick.target = "challenger" THEN IdOf(challenge.challengerUser)
    ELSE IdOf(challenge.challengedUser)

NonEmptyId(id) == id \notin {Absent, Null, Str(<<>>)}

\* The step calls login() after telling why.
PromptsLogin ==
    /\ Cardinality(AddedOf("login")) = 1
    /\ Cardinality(AddedOf("toast")) = 1
    /\ \A t \in AddedOf("toast") : Added[t].title = "Authentication Required"

\* The overlay is opened, or the selected profile changes, only by a click
\* on an avatar of a challenge that is not admin-created, by an
\* authenticated viewer, and the profile selected is the clicked user's
\* non-empty id; the overlay is visible only with such an id selected.
C22_OpenedByAuthenticatedClick ==
    /\ ((showProfileModal' /\ ~showProfileModal) \/ selectedProfileId' # selectedProfileId) =>
          /\ AvatarClicked
          /\ viewer.isAuthenticated
          /\ ~ToBoolean(challenge.adminCreated)
          /\ NonEmptyId(ClickedId)
          /\ selectedProfileId' = ClickedId
          /\ showProfileModal'
    /\ ProfileShown' =>
          /\ NonEmptyId(selectedProfileId')
          /\ ~ToBoolean(challenge'.adminCreated)
          /\ selectedProfileId' \in {IdOf(challenge'.challengerUser), IdOf(challenge'.challengedUser)}

\* C22 as stated: the above, and a click on an avatar while unauthenticated
\* prompts login and changes neither selectedProfileId nor showProfileModal.
C22_OriginalStep ==
    /\ C22_OpenedByAuthenticatedClick
    /\ (AvatarClicked /\ ~viewer.isAuthenticated) =>
          /\ PromptsLogin
          /\ UNCHANGED <<selectedProfileId, showProfileModal>>

C22_Original == [][C22_OriginalStep]_vars

\* C22: the overlay is opened only by an authenticated viewer's click on an
\* avatar of a challenge that is not admin-created and shows the clicked
\* user's non-empty id; a click while unauthenticated changes neither
\* selectedProfileId nor showProfileModal, and prompts login exactly when
\* the clicked avatar has a non-empty user id (a click on an avatar without
\* one does nothing, whoever clicks).
C22_Step ==
    /\ C22_OpenedByAuthenticatedClick
    /\ (AvatarClicked /\ ~viewer.isAuthenticated) =>
          /\ UNCHANGED <<selectedProfileId, showProfileModal>>
          /\ IF NonEmptyId(ClickedId) THEN PromptsLogin ELSE Len(Added) = 1
    /\ (AvatarClicked /\ ~NonEmptyId(ClickedId)) =>
          /\ UNCHANGED <<selectedProfileId, showProfileModal>>
          /\ Len(Added) = 1
    /\ (AvatarClicked /\ viewer.isAuthenticated) => AddedOf("login") = {}

C22_ProfileOverlay == [][C22_Step]_vars

\* C22 witness: a click on the challenger's avatar with nobody logged in
\* prompted login and opened nothing; after the login the same click
\* opened the overlay on the challenger a.
C22_Witness ==
    /\ Len(effects) = 4
    /\ effects[1] = Click("challenger")
    /\ effects[2].kind = "toast"
    /\ effects[3] = LoginCall
    /\ effects[4] = Click("challenger")
    /\ ProfileShown
    /\ selectedProfileId = Str(<<"a">>)
    /\ viewer.isAuthenticated

\* C23: on the card as rendered showAcceptModal stays false whatever is
\* clicked, so the confirmation modal's buttons are never there to press,
\* the acceptOpen mutation is never started and no accept-open request is
\* ever sent.
C23_AcceptModalNeverOpens ==
    /\ showAcceptModal = FALSE
    /\ ~ENABLED PressAccept
    /\ ~ENABLED PressCancel
    /\ ~ENABLED DialogOpenChange(FALSE)
    /\ AcceptOpenAttempts = {}
    /\ AcceptOpenRequests = {}
    /\ \A a \in inflight : a.m # "acceptOpen"

\* C23 witness: a logged-in viewer who is not the challenger has clicked
\* Accept on an open challenge, the staking button was what the click
\* reached, and the modal is closed.
C23_Witness ==
    /\ viewer.isAuthenticated
    /\ challenge.status = "open"
    /\ \E i \in EffectsOf("ConfirmAndStakeButton") :
          /\ i > 1
          /\ effects[i - 1] = Click("accept")
          /\ effects[i].challengeId = challenge.id
    /\ ~showAcceptModal

====
